---- MODULE Spec2Model ----
(***************************************************************************)
(* Provisional tax manager: the ledger (accounts, statements,              *)
(* transactions, dismissed duplicate pairs) with the duplicate detector    *)
(* and its auto-accept pass, and the categorization engine.                *)
(*                                                                         *)
(* Text is modelled by TLA+ strings; positions in lists are 1-based where  *)
(* the Python source is 0-based.  A row's primary key is its position in   *)
(* its table (SQLite assigns 1, 2, 3, ... and no row is ever removed).     *)
(* Money is counted in cents; a similarity score in hundredths.            *)
(***************************************************************************)
EXTENDS Integers, Sequences, FiniteSets, TLC

VARIABLES
    accounts,          \* table accounts: [name, account_number]
    statements,        \* table statements: [account_id]
    transactions,      \* table transactions
    dismissed,         \* table dismissed_duplicates: [transaction1_id, transaction2_id]
    op,                \* the handler that ran last
    duplicate_pairs,   \* auto_mark_duplicates: the candidates of its last run, by id
    marked,            \* auto_mark_duplicates: the assignments of its last run, in order
    marked_count,      \* auto_mark_duplicates: its last return value
    duplicates_data,   \* duplicates(): the list it rendered last
    rerun,             \* the last request ran auto_mark_duplicates right after another run
    transactions_list, \* detect_duplicates: its argument
    duplicates,        \* detect_duplicates: its return value
    description,       \* categorize_transaction: its argument description
    db_rules,          \* categorize_transaction: its argument db_rules
    result,            \* categorize_transaction: its return value
    pdf,               \* BankStatementParser.parse: the pages of the file
    parsed,            \* BankStatementParser.parse: what it returns or raises
    files,             \* upload(): request.files of the last upload
    flashed,           \* upload(): the message category flashed for each of them
    totals,            \* calculate_tax() / reports(): the totals of the last last_auth
    pc,                \* position of the call of a pure function
    tax_input,         \* the arguments of the last call of the tax calculator
    tax_calc,          \* what that call returned
    previous_tax,      \* what the call before it returned
    session,           \* the browser's session cookie: its logged_in entry
    last_auth          \* history: the last of the browser's successful logins and its logouts

ledger == <<accounts, statements, transactions, dismissed>>
observed == <<op, duplicate_pairs, marked, marked_count, duplicates_data, rerun>>
harness ==
    <<transactions_list, duplicates, description, db_rules, result, pdf, parsed, files,
      flashed, totals, pc, tax_input, tax_calc, previous_tax, session, last_auth>>
calls == <<tax_input, tax_calc, previous_tax, session, last_auth>>
pure ==
    <<transactions_list, duplicates, description, db_rules, result, pdf, parsed, files,
      flashed, totals, pc, tax_input, tax_calc, previous_tax>>
vars == <<accounts, statements, transactions, dismissed, op, duplicate_pairs, marked,
          marked_count, duplicates_data, rerun, transactions_list, duplicates,
          description, db_rules, result, pdf, parsed, files, flashed, totals, pc,
          tax_input, tax_calc, previous_tax, session, last_auth>>

----------------------------------------------------------------------------
(* Bounds of the model *)

MaxTrans == 3          \* rows in table transactions
MaxDismissed == 2      \* rows in table dismissed_duplicates
MaxDeleted == 1        \* soft-deleted rows in table transactions
MaxList == 3           \* length of the list handed to detect_duplicates
MaxRules == 2          \* length of the list db_rules
MaxLines == 3          \* transaction lines on the first page of a statement

(* Program constants *)

ScoreExact == 100      \* 1.0
ScorePartial == 80     \* 0.8
None == 0              \* a NULL key
ConfidenceMatch == 100 \* 1.0
ConfidenceNone == 0    \* 0.0

----------------------------------------------------------------------------
(* str.upper() and str.lower() on the characters the inputs use *)

LowerCase == "abcdefghijklmnopqrstuvwxyz"
UpperCase == "ABCDEFGHIJKLMNOPQRSTUVWXYZ"

CharAt(s, i) == SubSeq(s, i, i)

UpperMap ==
    [c \in {CharAt(LowerCase, i) : i \in 1..Len(LowerCase)} |->
        CharAt(UpperCase, CHOOSE i \in 1..Len(LowerCase) : CharAt(LowerCase, i) = c)]

UpperChar(c) == IF c \in DOMAIN UpperMap THEN UpperMap[c] ELSE c

(* the characters i..j of s in upper case, by halves *)
RECURSIVE UpperBetween(_, _, _)
UpperBetween(s, i, j) ==
    IF i > j THEN ""
    ELSE IF i = j THEN UpperChar(CharAt(s, i))
    ELSE UpperBetween(s, i, (i + j) \div 2) \o UpperBetween(s, ((i + j) \div 2) + 1, j)

UpperFrom(s, i) == UpperBetween(s, i, Len(s))

(* The strings of this module are ASCII. KelvinSign stands for the letter
   U+212A KELVIN SIGN, which str.lower() maps to k and str.upper() leaves
   as it is, as UpperChar does with any character outside a..z. *)
KelvinSign == "~"

LowerMap ==
    [c \in {CharAt(UpperCase, i) : i \in 1..Len(UpperCase)} \cup {KelvinSign} |->
        IF c = KelvinSign THEN "k"
        ELSE CharAt(LowerCase, CHOOSE i \in 1..Len(UpperCase) : CharAt(UpperCase, i) = c)]

LowerChar(c) == IF c \in DOMAIN LowerMap THEN LowerMap[c] ELSE c

RECURSIVE LowerFrom(_, _)
LowerFrom(s, i) ==
    IF i > Len(s) THEN ""
    ELSE LowerChar(CharAt(s, i)) \o LowerFrom(s, i + 1)

lower(s) == LowerFrom(s, 1)

(* the descriptions the inputs of the model carry *)
Descriptions ==
    {"NETFLIX.COM", "Netflix.com", "NETFLIX", "", "UBER",
     "PRECISE DIGITAL TELETRANSMISSION FEE", "Precise Digita IT25091ZA",
     "SARS REFUND LEGAL", "UNKNOWN SHOP", "netflix.com", "WOOLWORTHS NETFLIX",
     "~FC ROSEBANK"}

(* the descriptions and their upper-cased and lower-cased forms *)
CasedDescriptions ==
    Descriptions \cup {UpperFrom(s, 1) : s \in Descriptions}
                 \cup {LowerFrom(s, 1) : s \in Descriptions}

(* upper-casing is computed once for each description the inputs carry *)
UpperOfDescriptions == [s \in CasedDescriptions |-> UpperFrom(s, 1)]

upper(s) ==
    IF s \in DOMAIN UpperOfDescriptions THEN UpperOfDescriptions[s] ELSE UpperFrom(s, 1)

Range(q) == {q[k] : k \in 1..Len(q)}

(* Python's `a in b` on strings: b has a as a contiguous slice *)
In(a, b) ==
    \E k \in 0..(Len(b) - Len(a)) : SubSeq(b, k + 1, k + Len(a)) = a

----------------------------------------------------------------------------
(* detect_duplicates, src/services/pdf_parser.py *)

(* The body of the two loops for one pair of positions i < j. *)
CompareNoUpper(trans1, trans2, i, j) ==
    IF trans1.date = trans2.date /\ trans1.amount = trans2.amount
    THEN LET desc1 == trans1.description
             desc2 == trans2.description
         IN  IF desc1 = desc2 THEN << <<i, j, ScoreExact>> >>
             ELSE IF In(desc1, desc2) \/ In(desc2, desc1)
                  THEN << <<i, j, ScorePartial>> >>
                  ELSE << >>
    ELSE << >>

CompareIgnoreAmount(trans1, trans2, i, j) ==
    IF trans1.date = trans2.date
    THEN LET desc1 == upper(trans1.description)
             desc2 == upper(trans2.description)
         IN  IF desc1 = desc2 THEN << <<i, j, ScoreExact>> >>
             ELSE IF In(desc1, desc2) \/ In(desc2, desc1)
                  THEN << <<i, j, ScorePartial>> >>
                  ELSE << >>
    ELSE << >>

CompareOneWay(trans1, trans2, i, j) ==
    IF trans1.date = trans2.date /\ trans1.amount = trans2.amount
    THEN LET desc1 == upper(trans1.description)
             desc2 == upper(trans2.description)
         IN  IF desc1 = desc2 THEN << <<i, j, ScoreExact>> >>
             ELSE IF In(desc1, desc2)
                  THEN << <<i, j, ScorePartial>> >>
                  ELSE << >>
    ELSE << >>

CompareIgnoreDate(trans1, trans2, i, j) ==
    IF trans1.amount = trans2.amount
    THEN LET desc1 == upper(trans1.description)
             desc2 == upper(trans2.description)
         IN  IF desc1 = desc2 THEN << <<i, j, ScoreExact>> >>
             ELSE IF In(desc1, desc2) \/ In(desc2, desc1)
                  THEN << <<i, j, ScorePartial>> >>
                  ELSE << >>
    ELSE << >>

ComparePair(trans1, trans2, i, j) ==
    IF trans1.date = trans2.date /\ trans1.amount = trans2.amount
    THEN LET desc1 == upper(trans1.description)
             desc2 == upper(trans2.description)
         IN  IF desc1 = desc2 THEN << <<i, j, ScoreExact>> >>
             ELSE IF In(desc1, desc2) \/ In(desc2, desc1)
                  THEN << <<i, j, ScorePartial>> >>
                  ELSE << >>
    ELSE << >>

(* for j, trans2 in enumerate(transactions_list[i+1:], start=i+1) *)
RECURSIVE InnerLoop(_, _, _, _)
InnerLoop(list, i, j, dups) ==
    IF j > Len(list) THEN dups
    ELSE InnerLoop(list, i, j + 1, dups \o ComparePair(list[i], list[j], i, j))

(* for i, trans1 in enumerate(transactions_list) *)
RECURSIVE OuterLoop(_, _, _)
OuterLoop(list, i, dups) ==
    IF i > Len(list) THEN dups
    ELSE OuterLoop(list, i + 1, InnerLoop(list, i, i + 1, dups))

detect_duplicates_both_orders(list) ==
    OuterLoop(list, 1, << >>) \o
        [k \in 1..Len(OuterLoop(list, 1, << >>)) |->
            <<OuterLoop(list, 1, << >>)[k][2], OuterLoop(list, 1, << >>)[k][1],
              OuterLoop(list, 1, << >>)[k][3]>>]

detect_duplicates(list) == OuterLoop(list, 1, << >>)

----------------------------------------------------------------------------
(* The ledger queries *)

IsActive(t) == ~t.is_deleted /\ ~t.is_duplicate

RECURSIVE NotDeletedFrom(_, _)
NotDeletedFrom(T, i) ==
    IF i > Len(T) THEN << >>
    ELSE (IF ~T[i].is_deleted THEN <<i>> ELSE << >>) \o NotDeletedFrom(T, i + 1)

RECURSIVE ActiveFrom(_, _)
ActiveFrom(T, i) ==
    IF i > Len(T) THEN << >>
    ELSE (IF IsActive(T[i]) THEN <<i>> ELSE << >>) \o ActiveFrom(T, i + 1)

ActiveIncludingDuplicates(T) == NotDeletedFrom(T, 1)

(* Transaction.query.filter_by(is_deleted=False, is_duplicate=False).all():
   the ids of the rows, in table order *)
all_transactions(T) == ActiveFrom(T, 1)

trans_list(T) ==
    LET all == all_transactions(T)
    IN  [k \in 1..Len(all) |->
            [id |-> all[k], date |-> T[all[k]].date,
             description |-> T[all[k]].description, amount |-> T[all[k]].amount]]

account_id_of(T, S, id) == S[T[id].statement_id].account_id

----------------------------------------------------------------------------
(* auto_mark_duplicates, src/app.py *)

ShouldMarkAnyAccount(score, id1, id2, T, S) ==
    score = ScoreExact \/ score >= ScorePartial

ShouldMarkSkipsExact(score, id1, id2, T, S) ==
    score >= ScorePartial /\ account_id_of(T, S, id1) = account_id_of(T, S, id2)

should_mark(score, id1, id2, T, S) ==
    IF score = ScoreExact THEN TRUE
    ELSE IF score >= ScorePartial
         THEN account_id_of(T, S, id1) = account_id_of(T, S, id2)
         ELSE FALSE

(* One pass of `for idx1, idx2, score in duplicate_pairs`, from pair k on.
   all is the list the indices refer to; run carries the rows as updated so
   far, the assignments made and marked_count. *)
RECURSIVE MarkLoop(_, _, _, _, _)
MarkLoop(pairs, k, all, S, run) ==
    IF k > Len(pairs) THEN run
    ELSE LET trans1 == all[pairs[k][1]]
             trans2 == all[pairs[k][2]]
             score == pairs[k][3]
         IN  IF should_mark(score, trans1, trans2, run.transactions, S)
             THEN MarkLoop(pairs, k + 1, all, S,
                    [transactions |->
                        [run.transactions EXCEPT ![trans2].is_duplicate = TRUE,
                                                 ![trans2].duplicate_of_id = trans1],
                     marked |-> Append(run.marked, <<trans1, trans2, score>>),
                     marked_count |-> run.marked_count + 1])
             ELSE MarkLoop(pairs, k + 1, all, S, run)

(* The candidates of a run, by transaction id *)
PairsById(T) ==
    LET pairs == detect_duplicates(trans_list(T))
        all == all_transactions(T)
    IN  [k \in 1..Len(pairs) |-> <<all[pairs[k][1]], all[pairs[k][2]], pairs[k][3]>>]

auto_mark_duplicates(T, S) ==
    MarkLoop(detect_duplicates(trans_list(T)), 1, all_transactions(T), S,
             [transactions |-> T, marked |-> << >>, marked_count |-> 0])

----------------------------------------------------------------------------
(* duplicates() and dismiss_duplicate(), src/app.py *)

(* dismissed_set: both orderings of every dismissed pair *)
DismissedSetOneOrder(D) ==
    {<<D[k].transaction1_id, D[k].transaction2_id>> : k \in 1..Len(D)}

dismissed_set(D) ==
    {<<D[k].transaction1_id, D[k].transaction2_id>> : k \in 1..Len(D)} \cup
    {<<D[k].transaction2_id, D[k].transaction1_id>> : k \in 1..Len(D)}

(* the loop that builds duplicates_data, from pair k on *)
RECURSIVE ViewLoop(_, _, _, _)
ViewLoop(pairs, k, D, data) ==
    IF k > Len(pairs) THEN data
    ELSE IF <<pairs[k][1], pairs[k][2]>> \in dismissed_set(D)
         THEN ViewLoop(pairs, k + 1, D, data)
         ELSE ViewLoop(pairs, k + 1, D,
                       Append(data, [trans1 |-> pairs[k][1], trans2 |-> pairs[k][2],
                                     score |-> pairs[k][3]]))

(* the query for an existing dismissal of the pair, in either order *)
ExistingSameOrder(D, trans1_id, trans2_id) ==
    \E k \in 1..Len(D) :
        D[k].transaction1_id = trans1_id /\ D[k].transaction2_id = trans2_id

existing(D, trans1_id, trans2_id) ==
    \E k \in 1..Len(D) :
        \/ D[k].transaction1_id = trans1_id /\ D[k].transaction2_id = trans2_id
        \/ D[k].transaction1_id = trans2_id /\ D[k].transaction2_id = trans1_id

----------------------------------------------------------------------------
(* Inputs *)

AccountNumbers == {"10012345678", "5520123456789"}

(* what a parsed statement line or a manual entry can carry *)
ParsedRows ==
    {[date |-> "2025-03-15", description |-> "NETFLIX.COM", amount |-> -1599],
     [date |-> "2025-03-15", description |-> "NETFLIX", amount |-> -1599],
     [date |-> "2025-03-16", description |-> "NETFLIX.COM", amount |-> -1599]}

(* a parsed statement carries one line or two *)
ParsedStatements ==
    {<<r>> : r \in ParsedRows} \cup {<<r1, r2>> : r1 \in ParsedRows, r2 \in ParsedRows}

(* Transaction(...) with the column defaults *)
NewTransaction(statement_id, row) ==
    [statement_id |-> statement_id, date |-> row.date,
     description |-> row.description, amount |-> row.amount,
     is_duplicate |-> FALSE, duplicate_of_id |-> None, is_deleted |-> FALSE,
     parent_transaction_id |-> None]

----------------------------------------------------------------------------
(* The handlers.  duplicate_pairs, marked, marked_count, rerun and
   duplicates_data describe the request served last and are empty when
   that request did not compute them. *)

(* the requests that end with a run of auto_mark_duplicates *)
AutoMarkOps == {"upload", "auto_mark_all_duplicates"}

NoAutoMark ==
    /\ duplicate_pairs' = << >>
    /\ marked' = << >>
    /\ marked_count' = 0
    /\ rerun' = FALSE

Init ==
    /\ accounts = << >>
    /\ statements = << >>
    /\ transactions = << >>
    /\ dismissed = << >>
    /\ op = "init"
    /\ duplicate_pairs = << >>
    /\ marked = << >>
    /\ marked_count = 0
    /\ duplicates_data = << >>
    /\ rerun = FALSE
    /\ transactions_list = << >>
    /\ duplicates = << >>
    /\ description = ""
    /\ db_rules = << >>
    /\ result = << >>
    /\ pdf = << >>
    /\ parsed = << >>
    /\ files = << >>
    /\ flashed = << >>
    /\ totals = << >>
    /\ pc = "ledger"
    /\ tax_input = << >>
    /\ tax_calc = << >>
    /\ previous_tax = << >>
    /\ session = << >>
    /\ last_auth = "none"

(* the run of auto_mark_duplicates that ends upload() and is the whole of
   auto_mark_all_duplicates(), on the rows T *)
RunAutoMark(T, S) ==
    LET run == auto_mark_duplicates(T, S)
    IN  /\ transactions' = run.transactions
        /\ duplicate_pairs' = PairsById(T)
        /\ marked' = run.marked
        /\ marked_count' = run.marked_count

(* upload(), one file of the request: parse, get or create the account, add
   the statement and its transactions, commit, auto_mark_duplicates() *)
UploadUpTo(account_number, rows, limit) ==
    /\ Len(transactions) + Len(rows) <= limit
    /\ LET found == {a \in 1..Len(accounts) : accounts[a].account_number = account_number}
           account_id == IF found = {} THEN Len(accounts) + 1
                         ELSE CHOOSE a \in found : \A b \in found : a <= b
           A == IF found = {}
                THEN Append(accounts, [name |-> "Cheque Account",
                                       account_number |-> account_number])
                ELSE accounts
           S == Append(statements, [account_id |-> account_id])
           T == transactions \o
                [k \in 1..Len(rows) |-> NewTransaction(Len(S), rows[k])]
       IN  /\ accounts' = A
           /\ statements' = S
           /\ RunAutoMark(T, S)
    /\ op' = "upload"
    /\ rerun' = FALSE
    /\ duplicates_data' = << >>
    /\ UNCHANGED <<dismissed, harness>>

(* the table transactions holds MaxTrans rows at most *)
Upload(account_number, rows) == UploadUpTo(account_number, rows, MaxTrans)

(* add_transaction(): the first statement, or a placeholder account and
   statement for manual entries; no duplicate pass follows *)
AddTransaction(row) ==
    /\ Len(transactions) < MaxTrans
    /\ LET manual == {a \in 1..Len(accounts) : accounts[a].name = "Manual Entries"}
           A == IF statements = << >> /\ manual = {}
                THEN Append(accounts, [name |-> "Manual Entries",
                                       account_number |-> "MANUAL"])
                ELSE accounts
           account_id == IF manual = {} THEN Len(A)
                         ELSE CHOOSE a \in manual : \A b \in manual : a <= b
           S == IF statements = << >>
                THEN Append(statements, [account_id |-> account_id])
                ELSE statements
       IN  /\ accounts' = A
           /\ statements' = S
           /\ transactions' = Append(transactions, NewTransaction(1, row))
    /\ op' = "add_transaction"
    /\ NoAutoMark
    /\ duplicates_data' = << >>
    /\ UNCHANGED <<dismissed, harness>>

(* delete_transaction(id): soft delete *)
DeleteTransaction(id) ==
    /\ id \in 1..Len(transactions)
    /\ transactions' = [transactions EXCEPT ![id].is_deleted = TRUE]
    /\ op' = "delete_transaction"
    /\ NoAutoMark
    /\ duplicates_data' = << >>
    /\ UNCHANGED <<accounts, statements, dismissed, harness>>

(* auto_mark_all_duplicates(): POST /api/auto_mark_duplicates *)
AutoMarkAll ==
    /\ RunAutoMark(transactions, statements)
    /\ op' = "auto_mark_all_duplicates"
    /\ rerun' = (op \in AutoMarkOps)
    /\ duplicates_data' = << >>
    /\ UNCHANGED <<accounts, statements, dismissed, harness>>

(* duplicates(): GET /duplicates *)
Duplicates ==
    /\ duplicates_data' = ViewLoop(PairsById(transactions), 1, dismissed, << >>)
    /\ op' = "duplicates"
    /\ NoAutoMark
    /\ UNCHANGED <<ledger, harness>>

(* dismiss_duplicate(): POST /api/dismiss_duplicate *)
DismissDuplicate(trans1_id, trans2_id) ==
    /\ existing(dismissed, trans1_id, trans2_id) \/ Len(dismissed) < MaxDismissed
    /\ dismissed' = IF existing(dismissed, trans1_id, trans2_id) THEN dismissed
                    ELSE Append(dismissed, [transaction1_id |-> trans1_id,
                                            transaction2_id |-> trans2_id])
    /\ op' = "dismiss_duplicate"
    /\ NoAutoMark
    /\ duplicates_data' = << >>
    /\ UNCHANGED <<accounts, statements, transactions, harness>>

Deleted == {id \in 1..Len(transactions) : transactions[id].is_deleted}

(* dismiss_duplicate is posted by the "not a duplicate" button of the review
   page: for a pair that page shows, in either order *)
Next ==
    \/ \E n \in AccountNumbers, rows \in ParsedStatements : Upload(n, rows)
    \/ \E row \in ParsedRows : AddTransaction(row)
    \/ \E id \in 1..MaxTrans :
           Cardinality(Deleted \cup {id}) <= MaxDeleted /\ DeleteTransaction(id)
    \/ AutoMarkAll
    \/ Duplicates
    \/ \E pair \in Range(PairsById(transactions)) :
           \/ DismissDuplicate(pair[1], pair[2])
           \/ DismissDuplicate(pair[2], pair[1])

Spec == Init /\ [][Next]_vars

(* The ledger under the handlers that write transactions: the duplicate
   pass reads no dismissal, so the review handlers are left out. *)
NextAuto ==
    \/ \E n \in AccountNumbers, rows \in ParsedStatements : Upload(n, rows)
    \/ \E row \in ParsedRows : AddTransaction(row)
    \/ \E id \in 1..MaxTrans :
           Cardinality(Deleted \cup {id}) <= MaxDeleted /\ DeleteTransaction(id)
    \/ AutoMarkAll

SpecAuto == Init /\ [][NextAuto]_vars

(* The ledger under the review of duplicate candidates *)
NextReview ==
    \/ \E n \in AccountNumbers, rows \in ParsedStatements : Upload(n, rows)
    \/ \E row \in ParsedRows : AddTransaction(row)
    \/ Duplicates
    \/ \E pair \in Range(PairsById(transactions)) :
           \/ DismissDuplicate(pair[1], pair[2])
           \/ DismissDuplicate(pair[2], pair[1])

SpecReview == Init /\ [][NextReview]_vars

----------------------------------------------------------------------------
(* detect_duplicates as a pure function: one call on a list drawn from the
   inputs below *)

DetectRows ==
    [date : {"2025-03-15", "2025-03-16"},
     description : {"NETFLIX.COM", "Netflix.com", "NETFLIX", "", "UBER"},
     amount : {-1599, -1600}]

RECURSIVE ListsUpTo(_, _)
ListsUpTo(S, n) ==
    IF n = 0 THEN {<< >>}
    ELSE LET shorter == ListsUpTo(S, n - 1)
         IN  shorter \cup {Append(q, x) : q \in {r \in shorter : Len(r) = n - 1}, x \in S}

InitDetect ==
    /\ accounts = << >>
    /\ statements = << >>
    /\ transactions = << >>
    /\ dismissed = << >>
    /\ op = "init"
    /\ duplicate_pairs = << >>
    /\ marked = << >>
    /\ marked_count = 0
    /\ duplicates_data = << >>
    /\ rerun = FALSE
    /\ transactions_list \in ListsUpTo(DetectRows, MaxList)
    /\ duplicates = << >>
    /\ description = ""
    /\ db_rules = << >>
    /\ result = << >>
    /\ pdf = << >>
    /\ parsed = << >>
    /\ files = << >>
    /\ flashed = << >>
    /\ totals = << >>
    /\ pc = "call"
    /\ tax_input = << >>
    /\ tax_calc = << >>
    /\ previous_tax = << >>
    /\ session = << >>
    /\ last_auth = "none"

DetectDuplicates ==
    /\ pc = "call"
    /\ duplicates' = detect_duplicates(transactions_list)
    /\ pc' = "return"
    /\ UNCHANGED <<ledger, observed, transactions_list, description, db_rules, result,
                   pdf, parsed, files, flashed, totals, calls>>

NextDetect == DetectDuplicates

SpecDetect == InitDetect /\ [][NextDetect]_vars

----------------------------------------------------------------------------
(* Properties of the auto-accept pass and of the review of candidates *)

Account(id) == account_id_of(transactions, statements, id)

DismissedPair(a, b) ==
    \E k \in 1..Len(dismissed) :
        {dismissed[k].transaction1_id, dismissed[k].transaction2_id} = {a, b}

(* C1: no run of auto_mark_duplicates marks one transaction of a dismissed
   pair as the duplicate of the other.  marked holds the assignments of the
   run that ended the last request, and no run writes a dismissal. *)
C1_DismissedNeverAutoMarked ==
    \A m \in Range(marked) : ~DismissedPair(m[1], m[2])

(* C2: an assignment made for a 0.8 candidate is made for two transactions
   of one account, and a 0.8 candidate across two accounts causes none. *)
C2_PartialOnlySameAccount ==
    /\ \A m \in Range(marked) : m[3] = ScorePartial => Account(m[1]) = Account(m[2])
    /\ \A p \in Range(duplicate_pairs) :
           (p[3] = ScorePartial /\ Account(p[1]) # Account(p[2])) => p \notin Range(marked)

C2_Witness ==
    /\ op \in AutoMarkOps
    /\ \E p \in Range(duplicate_pairs) :
           /\ p[3] = ScorePartial /\ Account(p[1]) # Account(p[2])
           /\ ~transactions[p[1]].is_duplicate /\ ~transactions[p[2]].is_duplicate
    /\ \E m \in Range(marked) : m[3] = ScorePartial

(* C3 as stated: after a run, the second transaction of every 1.0 candidate
   is marked the duplicate of the first. *)
C3_ExactMarkedOfFirst ==
    \A p \in Range(duplicate_pairs) :
        p[3] = ScoreExact =>
            /\ transactions[p[2]].is_duplicate
            /\ transactions[p[2]].duplicate_of_id = p[1]

(* the transactions that form an auto-accepted candidate with b in a run *)
AcceptedPartners(b) ==
    {p[1] : p \in {q \in Range(duplicate_pairs) :
                      /\ q[2] = b
                      /\ (q[3] = ScoreExact \/ Account(q[1]) = Account(q[2]))}}

Max(ids) == CHOOSE x \in ids : \A y \in ids : y <= x

(* C3 amended: after a run, the second transaction of every 1.0 candidate
   is marked, the duplicate of the last transaction in scan order that
   forms an auto-accepted candidate with it. *)
C3_ExactMarkedOfLast ==
    \A p \in Range(duplicate_pairs) :
        p[3] = ScoreExact =>
            /\ transactions[p[2]].is_duplicate
            /\ transactions[p[2]].duplicate_of_id = Max(AcceptedPartners(p[2]))

C3_Witness ==
    /\ op \in AutoMarkOps
    /\ \E p, q \in Range(duplicate_pairs) :
           /\ p[3] = ScoreExact /\ q[3] = ScoreExact
           /\ p[2] = q[2] /\ p[1] < q[1]
           /\ Account(p[1]) # Account(p[2])
           /\ transactions[p[2]].duplicate_of_id = q[1]

(* C4: a run of auto_mark_duplicates that directly follows another run
   marks nothing, writes no row and returns 0. *)
C4_SecondRunMarksNothing ==
    [][(op \in AutoMarkOps /\ op' = "auto_mark_all_duplicates") =>
          (transactions' = transactions /\ marked' = << >> /\ marked_count' = 0)]_vars

C4_Witness ==
    /\ rerun
    /\ marked_count = 0
    /\ \E id \in 1..Len(transactions) :
           transactions[id].is_duplicate /\ ~transactions[id].is_deleted

(* C5: the list that duplicates() renders holds no dismissed pair, in
   whichever order the pair was stored, and no pair is stored twice. *)
C5_DismissedNotListed ==
    /\ \A d \in Range(duplicates_data) : ~DismissedPair(d.trans1, d.trans2)
    /\ \A i, j \in 1..Len(dismissed) :
           i < j => {dismissed[i].transaction1_id, dismissed[i].transaction2_id}
                    # {dismissed[j].transaction1_id, dismissed[j].transaction2_id}

C5_Witness ==
    /\ op = "duplicates"
    /\ Len(dismissed) = MaxDismissed
    /\ \E p \in Range(PairsById(transactions)) :
           /\ \E k \in 1..Len(dismissed) :
                  /\ dismissed[k].transaction1_id = p[2]
                  /\ dismissed[k].transaction2_id = p[1]
           /\ \A d \in Range(duplicates_data) : <<d.trans1, d.trans2>> # <<p[1], p[2]>>
    /\ duplicates_data # << >>

----------------------------------------------------------------------------
(* Properties of detect_duplicates.  Position k of the model is position
   k - 1 of the Python list. *)

Positions == 1..Len(transactions_list)

SameDateAmount(i, j) ==
    /\ transactions_list[i].date = transactions_list[j].date
    /\ transactions_list[i].amount = transactions_list[j].amount

Desc(i) == upper(transactions_list[i].description)

OneContainsOther(i, j) == In(Desc(i), Desc(j)) \/ In(Desc(j), Desc(i))

(* C6: every pair of positions with equal date, amount and upper-cased
   description is a candidate of score 1.0. *)
C6_ExactPairsListed ==
    pc = "return" =>
        \A i, j \in Positions :
            (i < j /\ SameDateAmount(i, j) /\ Desc(i) = Desc(j))
                => <<i, j, ScoreExact>> \in Range(duplicates)

C6_Witness ==
    /\ pc = "return"
    /\ Len(transactions_list) = MaxList
    /\ \A i, j \in Positions : SameDateAmount(i, j) /\ Desc(i) = Desc(j)
    /\ \E i, j \in Positions :
           transactions_list[i].description # transactions_list[j].description
    /\ Len(duplicates) * 2 = MaxList * (MaxList - 1)

(* C7: no candidate for a pair whose dates differ, whose amounts differ, or
   of which neither upper-cased description contains the other. *)
C7_OnlyMatchingPairsListed ==
    pc = "return" =>
        \A c \in Range(duplicates) :
            SameDateAmount(c[1], c[2]) /\ OneContainsOther(c[1], c[2])

C7_Witness ==
    /\ pc = "return"
    /\ duplicates = << >>
    /\ \E i, j \in Positions :
           /\ i < j /\ Desc(i) = Desc(j)
           /\ transactions_list[i].date = transactions_list[j].date
           /\ transactions_list[i].amount # transactions_list[j].amount
    /\ \E i, j \in Positions :
           i < j /\ SameDateAmount(i, j) /\ ~OneContainsOther(i, j)

(* C8: a pair with equal date and amount whose upper-cased descriptions
   differ, one containing the other, is listed once, with score 0.8. *)
C8_PartialPairsListed ==
    pc = "return" =>
        \A i, j \in Positions :
            (i < j /\ SameDateAmount(i, j) /\ Desc(i) # Desc(j) /\ OneContainsOther(i, j))
                => /\ <<i, j, ScorePartial>> \in Range(duplicates)
                   /\ Cardinality({k \in 1..Len(duplicates) :
                                      duplicates[k][1] = i /\ duplicates[k][2] = j}) = 1

C8_Witness ==
    /\ pc = "return"
    /\ \E i, j \in Positions :
           /\ i < j /\ SameDateAmount(i, j)
           /\ transactions_list[i].description = "NETFLIX"
           /\ transactions_list[j].description = ""
           /\ <<i, j, ScorePartial>> \in Range(duplicates)

(* C9: every candidate names a lower position first and scores 1.0 or 0.8,
   and no two candidates name the same two positions. *)
C9_CandidatesOrderedOnce ==
    pc = "return" =>
        /\ \A c \in Range(duplicates) :
               /\ c[1] \in Positions /\ c[2] \in Positions /\ c[1] < c[2]
               /\ c[3] \in {ScoreExact, ScorePartial}
        /\ \A k, l \in 1..Len(duplicates) :
               k # l => {duplicates[k][1], duplicates[k][2]}
                        # {duplicates[l][1], duplicates[l][2]}

C9_Witness ==
    /\ pc = "return"
    /\ \E k, l \in 1..Len(duplicates) :
           /\ duplicates[k][3] = ScorePartial /\ duplicates[l][3] = ScorePartial
           /\ Len(Desc(duplicates[k][1])) < Len(Desc(duplicates[k][2]))
           /\ Len(Desc(duplicates[l][1])) > Len(Desc(duplicates[l][2]))

----------------------------------------------------------------------------
(* The static category table CATEGORIES, src/services/categorizer.py, in
   definition order *)

CATEGORIES ==
    << [key |-> "income", name |-> "Income", type |-> "income",
        patterns |-> <<"PRECISE DIGITAL", "PRECISE DIGITA">>],
       [key |-> "advertising_marketing", name |-> "Advertising/Marketing", type |-> "business_expense",
        patterns |-> <<"FACEBOOK ADS", "GOOGLE ADS", "LINKEDIN", "MARKETING">>],
       [key |-> "startup_costs", name |-> "Business Start-up Costs", type |-> "business_expense",
        patterns |-> <<"CIPC", "COMPANY REGISTRATION">>],
       [key |-> "capital_equipment", name |-> "Capital Equipment", type |-> "business_expense",
        patterns |-> <<"APPLE STORE", "INCREDIBLE CONNECTION", "COMPUTER", "LAPTOP">>],
       [key |-> "cleaning", name |-> "Cleaning", type |-> "business_expense",
        patterns |-> <<"CLEANING SERVICE", "DOMESTIC">>],
       [key |-> "coffee_meals", name |-> "Coffee/Meals (Business)", type |-> "business_expense",
        patterns |-> <<"BOOTLEGGER", "SHIFT ESPRESS", "SHIFT ESPR", "FORESTERS ARM",
            "BOSSA", "OUMEUL BAKERY">>],
       [key |-> "education", name |-> "Education (UCT)", type |-> "business_expense",
        patterns |-> <<"PAYU.*UC", "UNIVERSITY OF", "QUALIFYD", "PAYFAST.*QUALI">>],
       [key |-> "entertainment_business", name |-> "Entertainment (Business)", type |-> "business_expense",
        patterns |-> <<>>],
       [key |-> "banking_fees", name |-> "Fees/Bank charges", type |-> "business_expense",
        patterns |-> <<"FIXED MONTHLY FEE", "TELETRANSMISSION", "FEE-TELETRANSMISSION",
            "ADMINISTRATION FEE", "UCOUNT", "SERVICE FEE", "HONOURING FEE",
            "OVERDRAFT SERVICE FEE", "ELECTRONIC PMT/TRNSF FEE", "INTERNATIONAL TXN FEE",
            "CASH FINANCE CHARGE", "EXCESS INTEREST", "CREDIT INTEREST",
            "CREDIT CARD INTEREST", "INTEREST CHARGE", "FINANCE CHARGE",
            "LATE PAYMENT FEE", "OVERLIMIT FEE">>],
       [key |-> "insurance", name |-> "Insurance", type |-> "business_expense",
        patterns |-> <<"DISCINSURE", "DISCLIFE", "INSURANCE PREMIUM">>],
       [key |-> "interest_mortgage", name |-> "Interest (Mortgage)", type |-> "business_expense",
        patterns |-> <<"SYSTEM INTEREST DEBIT", "INTEREST DEBIT">>],
       [key |-> "internet", name |-> "Internet (Afrihost)", type |-> "business_expense",
        patterns |-> <<"AFRIHOST">>],
       [key |-> "legal_fees", name |-> "Legal Fees", type |-> "business_expense",
        patterns |-> <<"ATTORNEY", "LEGAL", "LAW FIRM", "ADVOCATE">>],
       [key |-> "maintenance", name |-> "Maintenance", type |-> "business_expense",
        patterns |-> <<"POINT GARDEN", "LIQUID RAIN", "JOYCE THINDWA", "TRIP ELECTRICAL",
            "FIREWORX", "DRAIN UNBLOCK", "ABSOLUTE FENCING",
            "CITY OF CAPE TOWN BUILDING", "CITY BUILDING", "WOODENSCAPES",
            "LIVEWIRE SYSTEMS", "DONALD BEKKER">>],
       [key |-> "medical_aid", name |-> "Medical Aid", type |-> "business_expense",
        patterns |-> <<"DISC PREM", "MEDICAL AID CONTRIBUTION", "DISCOVERY">>],
       [key |-> "medical_fees", name |-> "Medical Fees", type |-> "business_expense",
        patterns |-> <<"DR MALCOL", "SPECSAVERS", "CLICKS PINELA">>],
       [key |-> "municipal", name |-> "Municipal", type |-> "business_expense",
        patterns |-> <<"CITY OF CAPE TOWN", "EASYPAY">>],
       [key |-> "office_equipment", name |-> "Office Equipment", type |-> "business_expense",
        patterns |-> <<"PNA PINELANDS">>],
       [key |-> "retirement_other", name |-> "Other Retirement", type |-> "business_expense",
        patterns |-> <<"OM UNITTRU", "OLD MUTUAL INVEST", "OLDGM.*INVEST">>],
       [key |-> "phone_data", name |-> "Phone/Data", type |-> "business_expense",
        patterns |-> <<"MTN", "MTN PREPAID", "MTN SP">>],
       [key |-> "printing", name |-> "Printing", type |-> "business_expense",
        patterns |-> <<"ROZPRINT">>],
       [key |-> "professional_services", name |-> "Professional Services", type |-> "business_expense",
        patterns |-> <<"PERSONAL TAX SERVIC", "SHEET SOLVED">>],
       [key |-> "retirement_10x", name |-> "Retirement (10X)", type |-> "business_expense",
        patterns |-> <<"10XRA COL", "10X">>],
       [key |-> "technology_software", name |-> "Technology/Software", type |-> "business_expense",
        patterns |-> <<"GOOGLE GSUITE", "GSUITE", "GOOGLE ONE", "GOOGLE WORKSPACE",
            "MSFT", "MICROSOFT", "CLAUDE.AI", "RENDER.COM", "GODADDY", "DNH\\*GODADDY",
            "PAYFAST.*TOPC", "TOP CODER", "ADOBE">>],
       [key |-> "travel_accommodation", name |-> "Travel/Accommodation", type |-> "business_expense",
        patterns |-> <<"AIRBNB", "BOOKING.COM", "HOTELS", "GUEST HOUSE", "LODGE">>],
       [key |-> "uniforms_workwear", name |-> "Uniforms/Workwear", type |-> "business_expense",
        patterns |-> <<>>],
       [key |-> "cash_withdrawal", name |-> "Cash Withdrawal", type |-> "personal_expense",
        patterns |-> <<"CASH WITHDRAWAL", "ATM WITHDRAWAL", "CASH.*ATM", "AUTOBANK CASH">>],
       [key |-> "clothing", name |-> "Clothing", type |-> "personal_expense",
        patterns |-> <<"MR PRICE", "MRPRICE", "ACKERMANS", "JET STORE", "EDGARS",
            "TRUWORTHS", "FOSCHINI", "MARKHAM", "ZARA", "H&M", "COTTON ON", "CAPE UNION",
            "SPORTSCENE", "TOTALSPORTS", "DUE SOUTH", "SHOES", "FOOTWEAR">>],
       [key |-> "credit_repayments", name |-> "Credit Repayments", type |-> "personal_expense",
        patterns |-> <<"SBSA RCP", "REVOLVING CREDIT", "RCP PAYMENT",
            "CREDIT CARD PAYMENT", "CC PAYMENT">>],
       [key |-> "entertainment_personal", name |-> "Entertainment (Personal)", type |-> "personal_expense",
        patterns |-> <<"NETFLIX", "GOOGLE YOUTUBE", "YOUTUBE", "APPLE.COM", "ITUNE",
            "SABC TV", "PLAYSTATION", "PLAYSTATIONNETWORK", "NUMETRO", "STER.*KINEKOR",
            "CINEMA", "KIRSTENBOSCH", "BOTANICAL", "HELDERBERG PLAAS">>],
       [key |-> "fuel", name |-> "Fuel", type |-> "personal_expense",
        patterns |-> <<"SHELL", "CALTEX", "SASOL", "TOTAL GARAGE", "BP GARAGE", "PETROL",
            "DIESEL", "FUEL", "FILLING STATION">>],
       [key |-> "groceries", name |-> "Groceries", type |-> "personal_expense",
        patterns |-> <<"CHECKERS", "WOOLWORTHS", "TOPS SUNRISE", "PNP CRP",
            "MCD PINELANDS", "SPUR", "TASHAS", "BK GRAND", "FORESTERS ARM",
            "KRISPY KREME", "OUMEUL BAKERY", "KNEAD PANORAM", "BROWNS CANAL",
            "THE GOAT SHED", "ASARA WINES", "WINE", "LIQUOR">>],
       [key |-> "gym", name |-> "Gym", type |-> "personal_expense",
        patterns |-> <<"VIRGIN ACT", "O M GYM", "OM GYM", "OLDGM.*DEBIT TRANSFER",
            "OLD MUTUAL.*GYM">>],
       [key |-> "home_construction", name |-> "Home Construction/Renovation", type |-> "personal_expense",
        patterns |-> <<"VALIDUS", "AFRIPOOLS">>],
       [key |-> "kids_school", name |-> "Kids School", type |-> "personal_expense",
        patterns |-> <<"KARRI">>],
       [key |-> "meals_personal", name |-> "Meals (Personal)", type |-> "personal_expense",
        patterns |-> <<"RESTAURANT", "STEERS", "NANDOS", "KFC", "PIZZA", "DEBONAIRS",
            "WIMPY", "OCEAN BASKET", "ROCOMAMAS", "SUSHI", "MUGG.*BEAN", "VIDA.*CAFFE",
            "CAFE", "DELI", "BISTRO", "EATERY", "SPUR", "TASHAS", "STIR CRAZY",
            "PEREGRINE FARM", "STODELS", "UTAHSPUR", "CINCINNATI SPU", "TABBS">>],
       [key |-> "personal_care", name |-> "Personal Care", type |-> "personal_expense",
        patterns |-> <<"SALON", "BARBER", "HAIR", "SPA", "BEAUTY", "NAIL", "MASSAGE",
            "SKINCARE", "CUTZF">>],
       [key |-> "personal_other", name |-> "Personal/Family Payments", type |-> "personal_expense",
        patterns |-> <<"JACKIE TOBIAS", "CO TOBIAS", "CESAIRE TOBIAS",
            "INVESTEC BANK LTD JOLION", "KM FACTORY">>],
       [key |-> "recreation", name |-> "Recreation Equipment", type |-> "personal_expense",
        patterns |-> <<"WONDERLAND", "PITKINCYCLES", "PITKIN CYCLES",
            "SPORTSMANS WAREHOUSE">>],
       [key |-> "savings_investments", name |-> "Savings/Investments", type |-> "personal_expense",
        patterns |-> <<"EASY EQUITIES", "EASYEQUITIES", "FNB SAVINGS", "SAVINGS POCKET",
            "UNIT TRUST">>],
       [key |-> "shopping", name |-> "Shopping", type |-> "personal_expense",
        patterns |-> <<"TAKEALOT", "TAKEALO", "AE HOWARD CEN", "HOWARD CENTRE",
            "ADVANCE CANAL", "CONSTANTIA UI", "BUILDERS SUNNI", "PETWORLD",
            "ABSOLUTE PETS", "FREEDOM ADVEN", "BARGAIN BOO", "CLICKS", "SPECSAVERS",
            "BWH CITY", "THE CRAZY S", "OUTDOORWARE", "PINELANDS VIL", "BUILD IT",
            "KOODOO", "PNP EXP", "CAPE TOWN FIRE">>],
       [key |-> "vehicle", name |-> "Vehicle/Transport", type |-> "personal_expense",
        patterns |-> <<"CARTRACK", "ENGEN", "C\\*BP PINELAND", "ACSA", "UBER",
            "SBSAVAFNO.*DEBICHECK">>],
       [key |-> "vehicle_other", name |-> "Vehicle (Other)", type |-> "personal_expense",
        patterns |-> <<"CAR SERVICE", "CAR WASH", "TYRES", "AUTO PARTS",
            "BATTERY CENTRE", "MIDAS", "TIGER WHEEL", "SUPA QUICK", "EXHAUST",
            "WINDSCREEN", "LICENSE RENEWAL", "VEHICLE LICENSE", "E-TOLL", "SANRAL",
            "N1 CITY MOTOR", "AUTOZONE", "GOLDWAGEN", "PANEL BEATER", "COCT TRAF",
            "TRAFFIC">>],
       [key |-> "tax_refund", name |-> "Tax Refund (Excluded)", type |-> "excluded",
        patterns |-> <<"SARS.*MAGTAPE", "SARS.*CREDIT", "SARS.*REFUND">>],
       [key |-> "tax_payment", name |-> "Tax Payment (Excluded)", type |-> "excluded",
        patterns |-> <<"SARS.*PAYMENT", "SARS.*PROV", "SARS.*IRP", "PROV TAX",
            "SARS.*PENALTY">>],
       [key |-> "bond_payment", name |-> "Bond Payment (Excluded)", type |-> "excluded",
        patterns |-> <<"DEBIT ORDER - DO", "STD BANK BOND", "SBSA HOMEL",
            "DEBIT ORDER REVERSAL">>],
       [key |-> "inter_account_transfer", name |-> "Inter-Account Transfer", type |-> "excluded",
        patterns |-> <<"IB TRANSFER", "AUTOBANK TRANSFER", "FUND TRANSFERS">>],
       [key |-> "transfers", name |-> "Transfers (Excluded)", type |-> "excluded",
        patterns |-> <<"DEBI CHECK PAYMENT">>] >>


CategoryByKey(key) == CHOOSE c \in Range(CATEGORIES) : c.key = key

(* the name returned when nothing matches *)
NoneName == "None"

----------------------------------------------------------------------------
(* re.search for the patterns the table and the rules use: a literal
   character, `.`, an escaped character, each optionally followed by `*` *)

(* re.error: nothing to repeat, multiple repeat, or a trailing backslash *)
RECURSIVE CompilesFrom(_, _, _)
CompilesFrom(p, i, repeatable) ==
    IF i > Len(p) THEN TRUE
    ELSE IF CharAt(p, i) = "*" THEN repeatable /\ CompilesFrom(p, i + 1, FALSE)
    ELSE IF CharAt(p, i) = "\\" THEN i < Len(p) /\ CompilesFrom(p, i + 2, TRUE)
    ELSE CompilesFrom(p, i + 1, TRUE)

(* the pattern from position i on matches the text from position j on *)
RECURSIVE MatchHere(_, _, _, _)
MatchHere(p, i, t, j) ==
    IF i > Len(p) THEN TRUE
    ELSE LET escaped == CharAt(p, i) = "\\"
             width == IF escaped THEN 2 ELSE 1
             c == IF escaped THEN CharAt(p, i + 1) ELSE CharAt(p, i)
             AtomAt(k) == k <= Len(t) /\ ((~escaped /\ c = ".") \/ CharAt(t, k) = c)
         IN  IF i + width <= Len(p) /\ CharAt(p, i + width) = "*"
             THEN \E k \in j..(Len(t) + 1) :
                      /\ \A l \in j..(k - 1) : AtomAt(l)
                      /\ MatchHere(p, i + width + 1, t, k)
             ELSE AtomAt(j) /\ MatchHere(p, i + width, t, j + 1)

re_search(pattern, text) ==
    /\ CompilesFrom(pattern, 1, FALSE)
    /\ \E j \in 1..(Len(text) + 1) : MatchHere(pattern, 1, text, j)

----------------------------------------------------------------------------
(* categorize_transaction, src/services/categorizer.py *)

is_fee_not_income(description_upper) ==
    In("FEE", description_upper) /\ In("TELETRANSMISSION", description_upper)

match_pattern(pattern, description_upper, is_regex) ==
    IF is_regex THEN re_search(pattern, description_upper)
    ELSE In(pattern, description_upper)

(* the loop over CATEGORIES['income']['patterns'], from pattern k on *)
RECURSIVE IncomeLoop(_, _)
IncomeLoop(k, description_upper) ==
    IF k > Len(CategoryByKey("income").patterns) THEN << >>
    ELSE IF In(CategoryByKey("income").patterns[k], description_upper)
         THEN IF is_fee_not_income(description_upper)
              THEN <<CategoryByKey("banking_fees").name, ConfidenceMatch>>
              ELSE <<CategoryByKey("income").name, ConfidenceMatch>>
         ELSE IncomeLoop(k + 1, description_upper)

(* one loop over CATEGORIES.items(): the first category of the pass, in the
   order of the table, one pattern of which matches; the excluded pass
   takes the excluded categories, the other pass the categories that are
   neither income nor excluded *)
InPass(pass, c) ==
    \/ pass = "excluded" /\ CATEGORIES[c].type = "excluded"
    \/ pass = "other" /\ CATEGORIES[c].type \notin {"income", "excluded"}

CategoryMatches(c, description_upper) ==
    \E k \in 1..Len(CATEGORIES[c].patterns) :
        match_pattern(CATEGORIES[c].patterns[k], description_upper, TRUE)

CategoryLoop(pass, description_upper) ==
    LET hits == {c \in 1..Len(CATEGORIES) :
                     InPass(pass, c) /\ CategoryMatches(c, description_upper)}
    IN  IF hits = {} THEN << >>
        ELSE <<CATEGORIES[CHOOSE c \in hits : \A other \in hits : c <= other].name,
               ConfidenceMatch>>

(* the hardcoded passes: income, excluded, all other categories *)
(* the passes with the other categories before the excluded ones *)
static_other_before_excluded(description_upper) ==
    IF IncomeLoop(1, description_upper) # << >> THEN IncomeLoop(1, description_upper)
    ELSE IF CategoryLoop("other", description_upper) # << >>
         THEN CategoryLoop("other", description_upper)
    ELSE IF CategoryLoop("excluded", description_upper) # << >>
         THEN CategoryLoop("excluded", description_upper)
    ELSE <<NoneName, ConfidenceNone>>

static_patterns(description_upper) ==
    IF IncomeLoop(1, description_upper) # << >> THEN IncomeLoop(1, description_upper)
    ELSE IF CategoryLoop("excluded", description_upper) # << >>
         THEN CategoryLoop("excluded", description_upper)
    ELSE IF CategoryLoop("other", description_upper) # << >>
         THEN CategoryLoop("other", description_upper)
    ELSE <<NoneName, ConfidenceNone>>

(* the hardcoded passes are computed once for each description the inputs
   carry *)
StaticOfDescriptions == [s \in CasedDescriptions |-> static_patterns(upper(s))]

static_fallback(desc) ==
    IF desc \in DOMAIN StaticOfDescriptions THEN StaticOfDescriptions[desc]
    ELSE static_patterns(upper(desc))

(* sorted(db_rules, key=lambda r: r.priority, reverse=True): a stable sort,
   rules of equal priority keep their order *)
Without(rules, k) == SubSeq(rules, 1, k - 1) \o SubSeq(rules, k + 1, Len(rules))

RECURSIVE sorted_ascending(_)
sorted_ascending(rules) ==
    IF rules = << >> THEN << >>
    ELSE LET k == CHOOSE i \in 1..Len(rules) :
                      /\ \A j \in 1..Len(rules) : rules[j].priority >= rules[i].priority
                      /\ \A j \in 1..(i - 1) : rules[j].priority > rules[i].priority
         IN  <<rules[k]>> \o sorted_ascending(Without(rules, k))

RECURSIVE sorted_rules(_)
sorted_rules(rules) ==
    IF rules = << >> THEN << >>
    ELSE LET k == CHOOSE i \in 1..Len(rules) :
                      /\ \A j \in 1..Len(rules) : rules[j].priority <= rules[i].priority
                      /\ \A j \in 1..(i - 1) : rules[j].priority < rules[i].priority
         IN  <<rules[k]>> \o sorted_rules(Without(rules, k))

(* the loop without `if not rule.is_active: continue` *)
RECURSIVE RuleLoopIgnoresActive(_, _, _)
RuleLoopIgnoresActive(rules, k, description_upper) ==
    IF k > Len(rules) THEN << >>
    ELSE IF match_pattern(upper(rules[k].pattern), description_upper, rules[k].is_regex)
         THEN IF /\ rules[k].category.category_type = "income"
                 /\ is_fee_not_income(description_upper)
              THEN RuleLoopIgnoresActive(rules, k + 1, description_upper)
              ELSE <<rules[k].category.name, ConfidenceMatch>>
         ELSE RuleLoopIgnoresActive(rules, k + 1, description_upper)

(* the loop without the skip of an income match on a fee *)
RECURSIVE RuleLoopNoFeeSkip(_, _, _)
RuleLoopNoFeeSkip(rules, k, description_upper) ==
    IF k > Len(rules) THEN << >>
    ELSE IF ~rules[k].is_active THEN RuleLoopNoFeeSkip(rules, k + 1, description_upper)
    ELSE IF match_pattern(upper(rules[k].pattern), description_upper, rules[k].is_regex)
         THEN <<rules[k].category.name, ConfidenceMatch>>
         ELSE RuleLoopNoFeeSkip(rules, k + 1, description_upper)

(* for rule in sorted_rules, from rule k on; << >> when the loop ends
   without a return *)
RECURSIVE RuleLoop(_, _, _)
RuleLoop(rules, k, description_upper) ==
    IF k > Len(rules) THEN << >>
    ELSE IF ~rules[k].is_active THEN RuleLoop(rules, k + 1, description_upper)
    ELSE IF match_pattern(upper(rules[k].pattern), description_upper, rules[k].is_regex)
         THEN IF /\ rules[k].category.category_type = "income"
                 /\ is_fee_not_income(description_upper)
              THEN RuleLoop(rules, k + 1, description_upper)
              ELSE <<rules[k].category.name, ConfidenceMatch>>
         ELSE RuleLoop(rules, k + 1, description_upper)

categorize_transaction(desc, rules) ==
    LET by_rule == IF rules # << >> THEN RuleLoop(sorted_rules(rules), 1, upper(desc))
                   ELSE << >>
    IN  IF by_rule # << >> THEN by_rule ELSE static_fallback(desc)

----------------------------------------------------------------------------
(* categorize_transaction as a pure function: one call on a description and
   a rule list drawn from the inputs below *)

CatDescriptions ==
    {"PRECISE DIGITAL TELETRANSMISSION FEE", "Precise Digita IT25091ZA",
     "NETFLIX.COM", "netflix.com", "SARS REFUND LEGAL", "UNKNOWN SHOP",
     "WOOLWORTHS NETFLIX", "~FC ROSEBANK"}

(* ExpenseRule rows: pattern, is_regex and category, at two priorities,
   active or not *)
RuleTemplates ==
    {[pattern |-> "precise", is_regex |-> FALSE,
      category |-> [name |-> "Income", category_type |-> "income"]],
     [pattern |-> "Netflix", is_regex |-> FALSE,
      category |-> [name |-> "Technology/Software", category_type |-> "business_expense"]],
     [pattern |-> "n.*x", is_regex |-> TRUE,
      category |-> [name |-> "Shopping", category_type |-> "personal_expense"]],
     [pattern |-> "*fee", is_regex |-> TRUE,
      category |-> [name |-> "Legal Fees", category_type |-> "business_expense"]],
     [pattern |-> "fee", is_regex |-> FALSE,
      category |-> [name |-> "Fees/Bank charges", category_type |-> "business_expense"]]}

RulePool ==
    {[pattern |-> t.pattern, is_regex |-> t.is_regex, category |-> t.category,
      priority |-> p, is_active |-> a] :
        t \in RuleTemplates, p \in {50, 150}, a \in BOOLEAN}

InitCategorize ==
    /\ accounts = << >>
    /\ statements = << >>
    /\ transactions = << >>
    /\ dismissed = << >>
    /\ op = "init"
    /\ duplicate_pairs = << >>
    /\ marked = << >>
    /\ marked_count = 0
    /\ duplicates_data = << >>
    /\ rerun = FALSE
    /\ transactions_list = << >>
    /\ duplicates = << >>
    /\ description \in CatDescriptions
    /\ db_rules \in ListsUpTo(RulePool, MaxRules)
    /\ result = << >>
    /\ pdf = << >>
    /\ parsed = << >>
    /\ files = << >>
    /\ flashed = << >>
    /\ totals = << >>
    /\ pc = "call"
    /\ tax_input = << >>
    /\ tax_calc = << >>
    /\ previous_tax = << >>
    /\ session = << >>
    /\ last_auth = "none"

CategorizeTransaction ==
    /\ pc = "call"
    /\ result' = categorize_transaction(description, db_rules)
    /\ pc' = "return"
    /\ UNCHANGED <<ledger, observed, transactions_list, duplicates, description, db_rules,
                   pdf, parsed, files, flashed, totals, calls>>

NextCategorize == CategorizeTransaction

SpecCategorize == InitCategorize /\ [][NextCategorize]_vars

----------------------------------------------------------------------------
(* Properties of categorize_transaction with database rules *)

(* rule k of db_rules is active and its pattern matches the description *)
Matches(k) ==
    /\ db_rules[k].is_active
    /\ match_pattern(upper(db_rules[k].pattern), upper(description), db_rules[k].is_regex)

(* an income-typed rule on a description with both FEE and TELETRANSMISSION *)
SkippedAsFee(k) ==
    /\ db_rules[k].category.category_type = "income"
    /\ is_fee_not_income(upper(description))

Eligible(k) == Matches(k) /\ ~SkippedAsFee(k)

(* C10, as stated: when some active rule matches the description, the
   result is the category of a matching active rule of the highest
   priority among the matching active rules, with confidence 1.0. *)
C10_HighestMatchingRuleWins ==
    (pc = "return" /\ \E k \in 1..Len(db_rules) : Matches(k)) =>
        \E k \in 1..Len(db_rules) :
            /\ Matches(k)
            /\ \A l \in 1..Len(db_rules) :
                   Matches(l) => db_rules[l].priority <= db_rules[k].priority
            /\ result = <<db_rules[k].category.name, ConfidenceMatch>>

(* C10, amended: income-typed rules are skipped on a description with both
   FEE and TELETRANSMISSION; among the remaining matching active rules the
   result is the category of the one of the highest priority, the first
   in the given order among equals, with confidence 1.0. *)
C10_HighestEligibleRuleWins ==
    (pc = "return" /\ \E k \in 1..Len(db_rules) : Eligible(k)) =>
        \E k \in 1..Len(db_rules) :
            /\ Eligible(k)
            /\ \A l \in 1..Len(db_rules) :
                   Eligible(l) => db_rules[l].priority <= db_rules[k].priority
            /\ \A l \in 1..(k - 1) :
                   Eligible(l) => db_rules[l].priority < db_rules[k].priority
            /\ result = <<db_rules[k].category.name, ConfidenceMatch>>

(* C10 witness: a rule overrides a matching rule of lower priority that
   comes first in db_rules and a static pattern that matches as well, the
   three of different categories. *)
C10_Witness ==
    /\ pc = "return"
    /\ \E k, l \in 1..Len(db_rules) :
           /\ l < k
           /\ Eligible(k) /\ Eligible(l)
           /\ db_rules[l].priority < db_rules[k].priority
           /\ db_rules[l].category.name # db_rules[k].category.name
           /\ result = <<db_rules[k].category.name, ConfidenceMatch>>
    /\ static_patterns(upper(description))[2] = ConfidenceMatch
    /\ static_patterns(upper(description))[1] \notin
           {db_rules[k].category.name : k \in 1..Len(db_rules)}

(* C11: the result is the result on db_rules without its inactive rules. *)
ActiveOnly(rules) == SelectSeq(rules, LAMBDA rule : rule.is_active)

C11_InactiveRulesNoInfluence ==
    pc = "return" => result = categorize_transaction(description, ActiveOnly(db_rules))

(* C11 witness: an inactive rule whose pattern matches, of a priority above
   that of an active rule, and the result is not its category. *)
C11_Witness ==
    /\ pc = "return"
    /\ \E k, l \in 1..Len(db_rules) :
           /\ ~db_rules[k].is_active
           /\ match_pattern(upper(db_rules[k].pattern), upper(description),
                            db_rules[k].is_regex)
           /\ Eligible(l)
           /\ db_rules[l].priority < db_rules[k].priority
           /\ result[1] # db_rules[k].category.name
           /\ result[1] = db_rules[l].category.name

----------------------------------------------------------------------------
(* Properties of the fee guard and of the hardcoded passes *)

FeeAndTeletransmission ==
    In("FEE", upper(description)) /\ In("TELETRANSMISSION", upper(description))

IncomeMarker ==
    \E k \in 1..Len(CategoryByKey("income").patterns) :
        In(CategoryByKey("income").patterns[k], upper(description))

IncomeNames ==
    {c.name : c \in {x \in Range(CATEGORIES) : x.type = "income"}}
        \cup {t.category.name :
                  t \in {x \in RuleTemplates : x.category.category_type = "income"}}

NoRuleApplies ==
    \A k \in 1..Len(db_rules) :
        ~(/\ db_rules[k].is_active
          /\ match_pattern(upper(db_rules[k].pattern), upper(description),
                           db_rules[k].is_regex)
          /\ ~(db_rules[k].category.category_type = "income" /\ FeeAndTeletransmission))

(* C12: a description with both FEE and TELETRANSMISSION never gets an
   income category; when the income match is the static marker alone, the
   result is the banking-fees category with confidence 1.0. *)
C12_FeeNeverIncome ==
    (pc = "return" /\ FeeAndTeletransmission) =>
        /\ result[1] \notin IncomeNames
        /\ (IncomeMarker /\ NoRuleApplies) =>
               result = <<CategoryByKey("banking_fees").name, ConfidenceMatch>>

(* C12 witness: an active income-typed rule of the highest priority and the
   static income marker both match such a description. *)
C12_Witness ==
    /\ pc = "return"
    /\ FeeAndTeletransmission
    /\ IncomeMarker
    /\ \E k \in 1..Len(db_rules) :
           /\ Matches(k)
           /\ db_rules[k].category.category_type = "income"
           /\ \A l \in 1..Len(db_rules) : db_rules[l].priority <= db_rules[k].priority
    /\ result = <<CategoryByKey("banking_fees").name, ConfidenceMatch>>

(* the categories a pattern of which matches, for each description of the
   inputs *)
MatchingCategories ==
    [s \in CatDescriptions |->
        {c \in 1..Len(CATEGORIES) :
             \E k \in 1..Len(CATEGORIES[c].patterns) :
                 match_pattern(CATEGORIES[c].patterns[k], upper(s), TRUE)}]

MatchingOfTypes(types) ==
    {c \in MatchingCategories[description] : CATEGORIES[c].type \in types}

FirstOf(hits) == CHOOSE c \in hits : \A other \in hits : c <= other

ExpenseTypes == {"business_expense", "personal_expense"}

(* C13: with no rule applying and no income marker, a description that
   matches an excluded category gets the first such category, whatever
   expense categories match as well; otherwise it gets the first expense
   category in table order that matches. *)
C13_StaticPassOrder ==
    (pc = "return" /\ NoRuleApplies /\ ~IncomeMarker) =>
        /\ MatchingOfTypes({"excluded"}) # {} =>
               result = <<CATEGORIES[FirstOf(MatchingOfTypes({"excluded"}))].name,
                          ConfidenceMatch>>
        /\ (MatchingOfTypes({"excluded"}) = {} /\ MatchingOfTypes(ExpenseTypes) # {}) =>
               result = <<CATEGORIES[FirstOf(MatchingOfTypes(ExpenseTypes))].name,
                          ConfidenceMatch>>

(* C13 witness: an excluded category matches, and so does an expense
   category that comes before it in the table. *)
C13_Witness ==
    /\ pc = "return"
    /\ NoRuleApplies
    /\ ~IncomeMarker
    /\ MatchingOfTypes({"excluded"}) # {}
    /\ MatchingOfTypes(ExpenseTypes) # {}
    /\ FirstOf(MatchingOfTypes(ExpenseTypes)) < FirstOf(MatchingOfTypes({"excluded"}))
    /\ result[1] = CATEGORIES[FirstOf(MatchingOfTypes({"excluded"}))].name

(* two expense categories match, none excluded: the first in the table wins *)
C13_WitnessExpense ==
    /\ pc = "return"
    /\ NoRuleApplies
    /\ ~IncomeMarker
    /\ MatchingOfTypes({"excluded"}) = {}
    /\ Cardinality(MatchingOfTypes(ExpenseTypes)) >= 2
    /\ result[1] = CATEGORIES[FirstOf(MatchingOfTypes(ExpenseTypes))].name

----------------------------------------------------------------------------
(* C14: the results for the description, for its upper-cased form and for
   its lower-cased form are equal, and the result is a category name with
   confidence 1.0 or None with confidence 0.0. *)
C14_CaseInsensitive ==
    pc = "return" =>
        /\ result = categorize_transaction(upper(description), db_rules)
        /\ result = categorize_transaction(lower(description), db_rules)
        /\ \/ result[1] # NoneName /\ result[2] = ConfidenceMatch
           \/ result = <<NoneName, ConfidenceNone>>

----------------------------------------------------------------------------
(* BankStatementParser, src/services/pdf_parser.py.  A page's text is a
   sequence of lines and a line is the sequence of its tokens, the pieces
   between runs of blanks; a line has no leading blank. *)

Digits == {"0", "1", "2", "3", "4", "5", "6", "7", "8", "9"}

Letters ==
    {CharAt(LowerCase, i) : i \in 1..Len(LowerCase)}
        \cup {CharAt(UpperCase, i) : i \in 1..Len(UpperCase)}

(* \w *)
WordChars == Digits \cup Letters \cup {"_"}

AllIn(s, chars) == \A i \in 1..Len(s) : CharAt(s, i) \in chars

(* \d{1,2} and \d{2} and \d{4} as a whole token *)
IsDigits(s, lo, hi) == Len(s) >= lo /\ Len(s) <= hi /\ AllIn(s, Digits)

(* \w{3} as a whole token *)
IsWord3(s) == Len(s) = 3 /\ AllIn(s, WordChars)

(* the token begins with \d{2} *)
StartsWithDigits2(s) == Len(s) >= 2 /\ AllIn(SubSeq(s, 1, 2), Digits)

(* the token begins with \w{3} *)
StartsWithWord3(s) == Len(s) >= 3 /\ AllIn(SubSeq(s, 1, 3), WordChars)

RECURSIVE Remove(_, _)
Remove(s, c) ==
    IF s = "" THEN ""
    ELSE (IF CharAt(s, 1) = c THEN "" ELSE CharAt(s, 1)) \o Remove(SubSeq(s, 2, Len(s)), c)

RECURSIVE Join(_)
Join(parts) ==
    IF parts = << >> THEN ""
    ELSE IF Len(parts) = 1 THEN parts[1]
    ELSE parts[1] \o " " \o Join(Tail(parts))

DigitValue(c) == CHOOSE n \in 0..9 : CharAt("0123456789", n + 1) = c

RECURSIVE ToInt(_)
ToInt(s) ==
    IF s = "" THEN 0
    ELSE 10 * ToInt(SubSeq(s, 1, Len(s) - 1)) + DigitValue(CharAt(s, Len(s)))

(* ^-?\d+\.\d{2}$ *)
IsAmount(s) ==
    LET body == IF Len(s) > 0 /\ CharAt(s, 1) = "-" THEN SubSeq(s, 2, Len(s)) ELSE s
    IN  /\ Len(body) >= 4
        /\ CharAt(body, Len(body) - 2) = "."
        /\ AllIn(SubSeq(body, 1, Len(body) - 3), Digits)
        /\ AllIn(SubSeq(body, Len(body) - 1, Len(body)), Digits)

(* ^[\d,]+\.\d{2}$ *)
IsUnsignedAmount(s) ==
    /\ Len(s) >= 4
    /\ CharAt(s, Len(s) - 2) = "."
    /\ AllIn(SubSeq(s, 1, Len(s) - 3), Digits \cup {","})
    /\ AllIn(SubSeq(s, Len(s) - 1, Len(s)), Digits)

(* Decimal(s) for digits, a point and two digits, in cents *)
Cents(s) == 100 * ToInt(SubSeq(s, 1, Len(s) - 3)) + ToInt(SubSeq(s, Len(s) - 1, Len(s)))

(* Decimal(amount_str) with an optional sign, in cents *)
SignedCents(s) ==
    IF CharAt(s, 1) = "-" THEN 0 - Cents(SubSeq(s, 2, Len(s)))
    ELSE IF CharAt(s, 1) = "+" THEN Cents(SubSeq(s, 2, Len(s)))
    ELSE Cents(s)

----------------------------------------------------------------------------
(* _parse_date: datetime.strptime with '%d %b %y', '%d %B %y', '%d %b %Y',
   '%d %B %Y' on a day, a month and a year token; ValueError when none of
   the four takes the string *)

MonthAbbr ==
    <<"JAN", "FEB", "MAR", "APR", "MAY", "JUN", "JUL", "AUG", "SEP", "OCT", "NOV", "DEC">>

MonthName ==
    <<"JANUARY", "FEBRUARY", "MARCH", "APRIL", "MAY", "JUNE", "JULY", "AUGUST",
      "SEPTEMBER", "OCTOBER", "NOVEMBER", "DECEMBER">>

IsLeap(year) == (year % 4 = 0 /\ year % 100 # 0) \/ year % 400 = 0

DaysIn(year, month) ==
    IF month = 2 THEN (IF IsLeap(year) THEN 29 ELSE 28)
    ELSE IF month \in {4, 6, 9, 11} THEN 30
    ELSE 31

(* %y: 69..99 are 1969..1999, 0..68 are 2000..2068; %Y: four digits *)
YearOf(token) ==
    IF Len(token) = 4 THEN ToInt(token)
    ELSE IF ToInt(token) >= 69 THEN 1900 + ToInt(token) ELSE 2000 + ToInt(token)

MonthsOf(token) ==
    {m \in 1..12 : UpperFrom(token, 1) \in {MonthAbbr[m], MonthName[m]}}

(* some format takes the string *)
date_parses(date_str) ==
    /\ IsDigits(date_str[1], 1, 2)
    /\ MonthsOf(date_str[2]) # {}
    /\ IsDigits(date_str[3], 2, 2) \/ IsDigits(date_str[3], 4, 4)
    /\ YearOf(date_str[3]) >= 1
    /\ ToInt(date_str[1]) >= 1
    /\ ToInt(date_str[1]) <=
           DaysIn(YearOf(date_str[3]), CHOOSE m \in MonthsOf(date_str[2]) : TRUE)

(* the date it returns when one does *)
parse_date(date_str) ==
    [year |-> YearOf(date_str[3]),
     month |-> CHOOSE m \in MonthsOf(date_str[2]) : TRUE,
     day |-> ToInt(date_str[1])]

----------------------------------------------------------------------------
(* The line parsers.  A parser returns the transactions it found, none or
   one, and whether it raised. *)

Found(transaction) == [raised |-> FALSE, transactions |-> <<transaction>>]
NothingFound == [raised |-> FALSE, transactions |-> << >>]
Raised == [raised |-> TRUE, transactions |-> << >>]

(* the while loop of _parse_transaction_line over parts, from part i on *)
RECURSIVE SignedSplit(_, _, _, _)
SignedSplit(parts, i, amounts, description_parts) ==
    IF i > Len(parts) THEN [amounts |-> amounts, description_parts |-> description_parts]
    ELSE IF parts[i] \in {"-", "+"} /\ i + 1 <= Len(parts)
         THEN IF IsUnsignedAmount(parts[i + 1])
              THEN SignedSplit(parts, i + 2,
                               Append(amounts, parts[i] \o Remove(parts[i + 1], ",")),
                               description_parts)
              ELSE SignedSplit(parts, i + 1, amounts, Append(description_parts, parts[i]))
         ELSE IF IsAmount(Remove(parts[i], ","))
              THEN SignedSplit(parts, i + 1, Append(amounts, Remove(parts[i], ",")),
                               description_parts)
              ELSE SignedSplit(parts, i + 1, amounts, Append(description_parts, parts[i]))

(* _parse_transaction_line catches the ValueError of _parse_date *)
parse_transaction_line(date_str, rest) ==
    IF Len(rest) < 2 THEN NothingFound
    ELSE LET split == SignedSplit(rest, 1, << >>, << >>)
         IN  IF split.amounts = << >> THEN NothingFound
             ELSE IF ~date_parses(date_str) THEN NothingFound
             ELSE Found([date |-> parse_date(date_str),
                         description |-> Join(split.description_parts),
                         amount |-> SignedCents(split.amounts[1])])

(* _parse_6month_transaction_line calls _parse_date outside any try *)
parse_6month_transaction_line(date_str, rest) ==
    IF Len(rest) < 2 THEN NothingFound
    ELSE LET amounts == SelectSeq(rest, LAMBDA part : IsAmount(Remove(part, ",")))
             description_parts == SelectSeq(rest, LAMBDA part : ~IsAmount(Remove(part, ",")))
         IN  IF amounts = << >> THEN NothingFound
             ELSE IF ~date_parses(date_str) THEN Raised
             ELSE Found([date |-> parse_date(date_str),
                         description |-> Join(description_parts),
                         amount |-> SignedCents(Remove(amounts[1], ","))])

----------------------------------------------------------------------------
(* The patterns the format parsers try on a line and on the line after it *)

(* ^\d{4}$ on line.strip() *)
IsYearMarker(line) == Len(line) = 1 /\ IsDigits(line[1], 4, 4)

(* ^(\d{1,2}\s+\w{3}) followed by a blank *)
DayMonth(line) == Len(line) >= 2 /\ IsDigits(line[1], 1, 2) /\ IsWord3(line[2])

(* ^(\d{1,2}\s+\w{3})(?:\s+\d{2})?\s+(.+) and ^(\d{1,2}\s+\w{3})\s+(.+) *)
MatchesDayMonthRest(line) == DayMonth(line) /\ Len(line) >= 3

(* group 2 of the first: the two-digit year is skipped when text follows it *)
RestAfterOptionalYear(line) ==
    IF Len(line) >= 4 /\ IsDigits(line[3], 2, 2) THEN SubSeq(line, 4, Len(line))
    ELSE SubSeq(line, 3, Len(line))

(* ^(\d{1,2}\s+\w{3}\s+\d{2}), with nothing asked of what follows *)
StartsWithFullDate(line) == DayMonth(line) /\ Len(line) >= 3 /\ StartsWithDigits2(line[3])

(* ^(\d{1,2}\s+\w{3}\s+\d{2})\s+(.+) *)
MatchesFullDateRest(line) == DayMonth(line) /\ Len(line) >= 4 /\ IsDigits(line[3], 2, 2)

(* ^\d{1,2}\s+\w{3}, with nothing asked of what follows *)
StartsWithDayMonth(line) ==
    Len(line) >= 2 /\ IsDigits(line[1], 1, 2) /\ StartsWithWord3(line[2])

StartsWith(s, prefix) == Len(s) >= Len(prefix) /\ SubSeq(s, 1, Len(prefix)) = prefix

(* next_line.startswith('Customer Care') and .startswith('The Standard') *)
StartsWithWords(line, first, second) ==
    Len(line) >= 2 /\ line[1] = first /\ StartsWith(line[2], second)

(* the line after line i continues the description, in the six-month and
   the card summary formats *)
SummaryContinuation(lines, i) ==
    /\ i + 1 <= Len(lines)
    /\ lines[i + 1] # << >>
    /\ ~StartsWithFullDate(lines[i + 1])
    /\ ~StartsWithWords(lines[i + 1], "Customer", "Care")
    /\ ~StartsWithWords(lines[i + 1], "The", "Standard")

(* the same in the mortgage format *)
MortgageContinuation(lines, i) ==
    /\ i + 1 <= Len(lines)
    /\ lines[i + 1] # << >>
    /\ ~StartsWithDayMonth(lines[i + 1])
    /\ ~StartsWithWords(lines[i + 1], "Customer", "Care")

(* any(c.isalpha() for c in rest) *)
HasAlpha(rest) ==
    \E k \in 1..Len(rest) : \E c \in 1..Len(rest[k]) : CharAt(rest[k], c) \in Letters

(* the description of a card line is on the line after it *)
CardDescriptionBelow(lines, i, rest) ==
    /\ ~HasAlpha(rest)
    /\ i + 1 <= Len(lines)
    /\ lines[i + 1] # << >>
    /\ ~StartsWithDayMonth(lines[i + 1])

----------------------------------------------------------------------------
(* The statement period in a page's text: the tokens of the page in one
   sequence, the three header patterns, _parse_date on the two dates *)

RECURSIVE Flatten(_)
Flatten(lines) == IF lines = << >> THEN << >> ELSE Head(lines) \o Flatten(Tail(lines))

(* \d+\s+\w+\s+\d+ from token k on *)
DateLike(tokens, k) ==
    /\ k + 2 <= Len(tokens)
    /\ AllIn(tokens[k], Digits)
    /\ AllIn(tokens[k + 1], WordChars)
    /\ AllIn(tokens[k + 2], Digits)

(* where a header pattern matches, as start and end position of its two
   dates, leftmost first *)
PeriodMatches(kind, tokens) ==
    IF kind = "range"
    THEN {<<k + 3, k + 7>> : k \in {k \in 1..Len(tokens) :
              /\ k + 9 <= Len(tokens)
              /\ SubSeq(tokens, k, k + 2) = <<"Transaction", "date", "range:">>
              /\ DateLike(tokens, k + 3)
              /\ tokens[k + 6] = "-"
              /\ DateLike(tokens, k + 7)}}
    ELSE IF kind = "period"
    THEN {<<k + 2, k + 6>> : k \in {k \in 1..Len(tokens) :
              /\ k + 8 <= Len(tokens)
              /\ SubSeq(tokens, k, k + 1) = <<"Statement", "Period">>
              /\ DateLike(tokens, k + 2)
              /\ tokens[k + 5] = "to"
              /\ DateLike(tokens, k + 6)}}
    ELSE {<<m[1] + 1, m[2] + 1>> : m \in {m \in (1..Len(tokens)) \X (1..Len(tokens)) :
              /\ tokens[m[1]] = "From:"
              /\ DateLike(tokens, m[1] + 1)
              /\ m[2] >= m[1] + 4
              /\ tokens[m[2]] = "To:"
              /\ DateLike(tokens, m[2] + 1)}}

FirstMatch(matches) ==
    CHOOSE m \in matches :
        \A n \in matches : m[1] < n[1] \/ (m[1] = n[1] /\ m[2] <= n[2])

(* if not self.start_date: the patterns of the format in their order; st
   is the parser's state *)
RECURSIVE ExtractPeriod(_, _, _, _)
ExtractPeriod(kinds, k, tokens, st) ==
    IF st.start_date # << >> \/ k > Len(kinds) THEN st
    ELSE IF PeriodMatches(kinds[k], tokens) = {} THEN ExtractPeriod(kinds, k + 1, tokens, st)
    ELSE LET m == FirstMatch(PeriodMatches(kinds[k], tokens))
             first == SubSeq(tokens, m[1], m[1] + 2)
             second == SubSeq(tokens, m[2], m[2] + 2)
         IN  IF ~date_parses(first) \/ ~date_parses(second)
             THEN [st EXCEPT !.raised = TRUE]
             ELSE [st EXCEPT !.start_date = <<parse_date(first)>>,
                             !.end_date = <<parse_date(second)>>]

----------------------------------------------------------------------------
(* The loops over the lines of one page.  Each returns the transactions of
   the page and whether a line parser raised. *)

(* str(year)[-2:] for a year of four digits *)
LastTwoDigits(year) ==
    CharAt("0123456789", ((year % 100) \div 10) + 1) \o CharAt("0123456789", (year % 10) + 1)

Collect(acc, found) ==
    [raised |-> acc.raised \/ found.raised,
     transactions |-> acc.transactions \o found.transactions]

(* _parse_monthly_detailed_format: the year context comes first, then the
   year at the head of the line, then 25 *)
RECURSIVE MonthlyLines(_, _, _, _)
MonthlyLines(lines, i, current_year, acc) ==
    IF i > Len(lines) \/ acc.raised THEN acc
    ELSE IF IsYearMarker(lines[i])
         THEN MonthlyLines(lines, i + 1, SubSeq(lines[i][1], 3, 4), acc)
    ELSE IF MatchesDayMonthRest(lines[i])
         THEN LET line == lines[i]
                  year == IF current_year # "" THEN current_year
                          ELSE IF StartsWithFullDate(line) THEN SubSeq(line[3], 1, 2)
                          ELSE "25"
              IN  MonthlyLines(lines, i + 1, current_year,
                      Collect(acc, parse_transaction_line(<<line[1], line[2], year>>,
                                                          RestAfterOptionalYear(line))))
    ELSE MonthlyLines(lines, i + 1, current_year, acc)

(* _parse_6month_format and _parse_credit_card_summary_format *)
RECURSIVE SummaryLines(_, _, _)
SummaryLines(lines, i, acc) ==
    IF i > Len(lines) \/ acc.raised THEN acc
    ELSE IF MatchesFullDateRest(lines[i])
         THEN LET line == lines[i]
                  rest == SubSeq(line, 4, Len(line))
                  description_line == IF SummaryContinuation(lines, i)
                                      THEN rest \o lines[i + 1] ELSE rest
              IN  SummaryLines(lines, i + 1,
                      Collect(acc, parse_6month_transaction_line(
                                       <<line[1], line[2], line[3]>>, description_line)))
    ELSE SummaryLines(lines, i + 1, acc)

(* the found transaction as the line parser returns it *)
KeepSign(found) == found

(* if transaction['amount'] > 0: transaction['amount'] = -transaction['amount'] *)
ForceNegative(found) ==
    [found EXCEPT !.transactions =
        [k \in 1..Len(found.transactions) |->
            IF found.transactions[k].amount > 0
            THEN [found.transactions[k] EXCEPT !.amount = 0 - @]
            ELSE found.transactions[k]]]

(* _parse_credit_card_detailed_format: the year at the head of the line
   comes first, then the year context, then the year of start_date, then
   25 *)
RECURSIVE CardDetailedLines(_, _, _, _, _)
CardDetailedLines(lines, i, current_year, start_date, acc) ==
    IF i > Len(lines) \/ acc.raised THEN acc
    ELSE IF IsYearMarker(lines[i])
         THEN CardDetailedLines(lines, i + 1, SubSeq(lines[i][1], 3, 4), start_date, acc)
    ELSE IF MatchesDayMonthRest(lines[i])
         THEN LET line == lines[i]
                  year == IF StartsWithFullDate(line) THEN SubSeq(line[3], 1, 2)
                          ELSE IF current_year # "" THEN current_year
                          ELSE IF start_date # << >>
                               THEN LastTwoDigits(start_date[1].year)
                          ELSE "25"
                  rest == RestAfterOptionalYear(line)
                  below == CardDescriptionBelow(lines, i, rest)
              IN  CardDetailedLines(lines, IF below THEN i + 2 ELSE i + 1,
                      current_year, start_date,
                      Collect(acc, ForceNegative(parse_transaction_line(
                                       <<line[1], line[2], year>>,
                                       IF below THEN lines[i + 1] \o rest ELSE rest))))
    ELSE CardDetailedLines(lines, i + 1, current_year, start_date, acc)

(* _parse_mortgage: the year is that of the first year marker among the ten
   lines before the line, or 25 *)
MortgageYear(lines, i) ==
    LET markers == {j \in 1..(i - 1) : j >= i - 10 /\ IsYearMarker(lines[j])}
    IN  IF markers = {} THEN "25"
        ELSE SubSeq(lines[CHOOSE j \in markers : \A k \in markers : j <= k][1], 3, 4)

RECURSIVE MortgageLines(_, _, _)
MortgageLines(lines, i, acc) ==
    IF i > Len(lines) \/ acc.raised THEN acc
    ELSE IF MatchesDayMonthRest(lines[i])
         THEN LET line == lines[i]
                  rest == SubSeq(line, 3, Len(line))
                  description_line == IF MortgageContinuation(lines, i)
                                      THEN rest \o lines[i + 1] ELSE rest
              IN  MortgageLines(lines, i + 1,
                      Collect(acc, parse_transaction_line(
                                       <<line[1], line[2], MortgageYear(lines, i)>>,
                                       description_line)))
    ELSE MortgageLines(lines, i + 1, acc)

----------------------------------------------------------------------------
(* parse() and the parsers of the five formats.  The account number, which
   the parsers read from the header as well, is not part of this model. *)

(* page.extract_text(): the lines joined by newlines *)
RECURSIVE PageText(_)
PageText(lines) ==
    IF lines = << >> THEN ""
    ELSE IF Len(lines) = 1 THEN Join(lines[1])
    ELSE Join(lines[1]) \o "\n" \o PageText(Tail(lines))

(* the dialects in the order HOME LOAN, CREDIT CARD, CHEQUE *)
AccountTypeLoanFirst(text_upper) ==
    IF In("HOUSING LOAN", text_upper) \/ In("HOME LOAN", text_upper) THEN "mortgage"
    ELSE IF \/ In("CREDIT CARD", text_upper)
            \/ In("CARD DIVISION", text_upper)
            \/ In("WORLD CITIZEN CARD", text_upper)
            \/ In("CARD", text_upper) /\ In("ACCOUNT 5520", text_upper)
         THEN "credit_card"
    ELSE IF In("SIGNATURE", text_upper) \/ In("CHEQUE", text_upper) THEN "cheques"
    ELSE ""

(* the if/elif chain of parse(); "" stands for the else branch *)
AccountType(text_upper) ==
    IF In("SIGNATURE", text_upper) \/ In("CHEQUE", text_upper) THEN "cheques"
    ELSE IF \/ In("CREDIT CARD", text_upper)
            \/ In("CARD DIVISION", text_upper)
            \/ In("WORLD CITIZEN CARD", text_upper)
            \/ In("CARD", text_upper) /\ In("ACCOUNT 5520", text_upper)
         THEN "credit_card"
    ELSE IF In("HOUSING LOAN", text_upper) \/ In("HOME LOAN", text_upper) THEN "mortgage"
    ELSE ""

(* _parse_cheques_account and _parse_credit_card choose the sub-format *)
IsSummary(first_page_text) == In("Payments", first_page_text) /\ In("Deposits", first_page_text)

FormatOf(account_type, first_page_text) ==
    IF account_type = "cheques"
    THEN (IF IsSummary(first_page_text) THEN "6month" ELSE "monthly_detailed")
    ELSE IF account_type = "credit_card"
    THEN (IF IsSummary(first_page_text) THEN "credit_card_summary"
          ELSE "credit_card_detailed")
    ELSE "mortgage"

(* the header patterns each format tries for the statement period *)
PeriodKinds(format) ==
    IF format \in {"monthly_detailed", "mortgage"} THEN <<"range", "from">>
    ELSE IF format = "6month" THEN <<"from">>
    ELSE <<"range", "period", "from">>

PageLines(format, lines, st) ==
    LET acc == [raised |-> FALSE, transactions |-> st.transactions]
    IN  IF format = "monthly_detailed" THEN MonthlyLines(lines, 1, "", acc)
        ELSE IF format \in {"6month", "credit_card_summary"} THEN SummaryLines(lines, 1, acc)
        ELSE IF format = "credit_card_detailed"
             THEN CardDetailedLines(lines, 1, "", st.start_date, acc)
        ELSE MortgageLines(lines, 1, acc)

(* for page in pdf.pages *)
RECURSIVE PagesLoop(_, _, _, _)
PagesLoop(format, pages, p, st) ==
    IF p > Len(pages) \/ st.raised THEN st
    ELSE LET header == ExtractPeriod(PeriodKinds(format), 1, Flatten(pages[p]), st)
         IN  IF header.raised THEN header
             ELSE LET body == PageLines(format, pages[p], header)
                  IN  PagesLoop(format, pages, p + 1,
                          [header EXCEPT !.raised = body.raised,
                                         !.transactions = body.transactions])

(* raise ValueError(...) in parse() or in _parse_date *)
ValueError == "ValueError"

ParseError == [raised |-> TRUE, error |-> ValueError]

parse(pages) ==
    LET first_page_text == PageText(pages[1])
        account_type == AccountType(UpperFrom(first_page_text, 1))
    IN  IF account_type = "" THEN ParseError
        ELSE LET st == PagesLoop(FormatOf(account_type, first_page_text), pages, 1,
                                 [raised |-> FALSE, start_date |-> << >>,
                                  end_date |-> << >>, transactions |-> << >>])
             IN  IF st.raised THEN ParseError
                 ELSE [raised |-> FALSE, account_type |-> account_type,
                       start_date |-> st.start_date, end_date |-> st.end_date,
                       transactions |-> st.transactions]

----------------------------------------------------------------------------
(* parse() as a pure function: one call on a file drawn from the inputs
   below *)

(* the head of the first page: the words that tell the dialect and, under
   them, the column titles of a summary, the statement period, or an empty
   line *)
Heads ==
    {<<<<"Signature", "Account">>, <<"Payments", "Deposits">>>>,
     <<<<"Cheque", "Credit", "Card", "Home", "Loan">>, << >>>>,
     <<<<"Credit", "Card", "Home", "Loan">>, << >>>>,
     <<<<"Credit", "Card", "Home", "Loan">>, <<"Payments", "Deposits">>>>,
     <<<<"Card", "Account", "5520">>,
       <<"Statement", "Period", "01", "Mar", "24", "to", "31", "Mar", "24">>>>,
     <<<<"Home", "Loan">>, << >>>>,
     <<<<"Bank", "Statement">>, << >>>>}

(* a line with a full date, one without the year, one with a date that does
   not exist, one without an amount, a year marker, a line with the sign
   apart and no description, and the description of the line above *)
StatementLines ==
    {<<"15", "Mar", "25", "NETFLIX.COM", "-99.00", "1,234.56">>,
     <<"16", "Mar", "WOOLWORTHS", "150.00">>,
     <<"31", "Feb", "25", "PAYMENT", "100.00">>,
     <<"17", "Mar", "25", "REFUND", "ABC">>,
     <<"2024">>,
     <<"18", "Mar", "25", "-", "199.98">>,
     <<"CARD", "PURCHASE">>}

SecondPages == {<<<<"19", "Mar", "25", "UBER", "50.00">>>>}

(* the lists of up to n lines of S, no line twice *)
DistinctListsUpTo(S, n) ==
    {q \in ListsUpTo(S, n) : \A i \in 1..Len(q), j \in 1..Len(q) : q[i] = q[j] => i = j}

Files ==
    {<<head \o body>> \o rest :
        head \in Heads,
        body \in DistinctListsUpTo(StatementLines, MaxLines),
        rest \in {<< >>} \cup {<<page>> : page \in SecondPages}}

InitParse ==
    /\ accounts = << >>
    /\ statements = << >>
    /\ transactions = << >>
    /\ dismissed = << >>
    /\ op = "init"
    /\ duplicate_pairs = << >>
    /\ marked = << >>
    /\ marked_count = 0
    /\ duplicates_data = << >>
    /\ rerun = FALSE
    /\ transactions_list = << >>
    /\ duplicates = << >>
    /\ description = ""
    /\ db_rules = << >>
    /\ result = << >>
    /\ pdf \in Files
    /\ parsed = << >>
    /\ files = << >>
    /\ flashed = << >>
    /\ totals = << >>
    /\ pc = "call"
    /\ tax_input = << >>
    /\ tax_calc = << >>
    /\ previous_tax = << >>
    /\ session = << >>
    /\ last_auth = "none"

Parse ==
    /\ pc = "call"
    /\ parsed' = parse(pdf)
    /\ pc' = "return"
    /\ UNCHANGED <<ledger, observed, transactions_list, duplicates, description, db_rules,
                   result, pdf, files, flashed, totals, calls>>

NextParse == Parse

SpecParse == InitParse /\ [][NextParse]_vars

----------------------------------------------------------------------------
(* Properties of parse() *)

FirstPageUpper == UpperFrom(PageText(pdf[1]), 1)

ChequeMarker(text) == In("SIGNATURE", text) \/ In("CHEQUE", text)

CardMarker(text) ==
    \/ In("CREDIT CARD", text)
    \/ In("CARD DIVISION", text)
    \/ In("WORLD CITIZEN CARD", text)
    \/ In("CARD", text) /\ In("ACCOUNT 5520", text)

LoanMarker(text) == In("HOUSING LOAN", text) \/ In("HOME LOAN", text)

(* the earliest dialect a marker of which is in the text, "" for none *)
EarliestDialect(text) ==
    IF ChequeMarker(text) THEN "cheques"
    ELSE IF CardMarker(text) THEN "credit_card"
    ELSE IF LoanMarker(text) THEN "mortgage"
    ELSE ""

(* C15: a result carries the earliest dialect, in the order checking,
   credit card, home loan, a marker of which is on the first page; with no
   marker parse raises and returns nothing. *)
C15_EarliestDialect ==
    pc = "return" =>
        \E expected \in {EarliestDialect(FirstPageUpper)} :
            /\ expected = "" => parsed = ParseError
            /\ ~parsed.raised => parsed.account_type = expected

(* C15 witness: the first page has the markers of the three dialects, in
   mixed case, and the statement is read as a checking statement. *)
C15_Witness ==
    /\ pc = "return"
    /\ ~parsed.raised
    /\ parsed.account_type = "cheques"
    /\ parsed.transactions # << >>
    /\ ~In("CHEQUE", PageText(pdf[1]))
    /\ ChequeMarker(FirstPageUpper) /\ CardMarker(FirstPageUpper)
    /\ LoanMarker(FirstPageUpper)

(* no marker: the error *)
C15_WitnessUnknown ==
    /\ pc = "return"
    /\ Len(pdf[1]) > 2
    /\ parsed = ParseError
    /\ EarliestDialect(FirstPageUpper) = ""

(* C16: parse returns no result with an empty list of transactions. *)
C16_NoEmptyResult ==
    pc = "return" => (parsed.raised \/ parsed.transactions # << >>)

(* C17: with a dialect on the first page, parse does not raise, whatever
   the transaction lines are. *)
C17_BadLineDropped ==
    (pc = "return" /\ parsed.raised) => EarliestDialect(FirstPageUpper) = ""

(* the amounts the tokens of the file spell, in cents: a token that is an
   amount, or a sign and the amount after it *)
SpelledAmounts ==
    {SignedCents(Remove(Flatten(Flatten(pdf))[k], ",")) :
        k \in {k \in 1..Len(Flatten(Flatten(pdf))) :
                   IsAmount(Remove(Flatten(Flatten(pdf))[k], ","))}}
        \cup
    {SignedCents(Flatten(Flatten(pdf))[k] \o Remove(Flatten(Flatten(pdf))[k + 1], ",")) :
        k \in {k \in 1..(Len(Flatten(Flatten(pdf))) - 1) :
                   /\ Flatten(Flatten(pdf))[k] \in {"-", "+"}
                   /\ IsUnsignedAmount(Flatten(Flatten(pdf))[k + 1])}}

Abs(n) == IF n < 0 THEN 0 - n ELSE n

SummaryTitles == In("Payments", PageText(pdf[1])) /\ In("Deposits", PageText(pdf[1]))

(* C20, as stated: every amount of a credit-card statement, detailed or
   summary, is non-positive and of a spelled magnitude; the amounts of the
   other statements are as spelled. *)
C20_CardAmountsNegative ==
    (pc = "return" /\ ~parsed.raised) =>
        \A k \in 1..Len(parsed.transactions) :
            IF parsed.account_type = "credit_card"
            THEN /\ parsed.transactions[k].amount <= 0
                 /\ \E a \in SpelledAmounts : Abs(a) = Abs(parsed.transactions[k].amount)
            ELSE parsed.transactions[k].amount \in SpelledAmounts

(* C20, amended: that holds of the detailed credit-card statements; the
   summary ones keep the amounts as spelled, as the checking and mortgage
   statements do. *)
C20_CardDetailedAmountsNegative ==
    (pc = "return" /\ ~parsed.raised) =>
        \A k \in 1..Len(parsed.transactions) :
            IF parsed.account_type = "credit_card" /\ ~SummaryTitles
            THEN /\ parsed.transactions[k].amount <= 0
                 /\ \E a \in SpelledAmounts : Abs(a) = Abs(parsed.transactions[k].amount)
            ELSE parsed.transactions[k].amount \in SpelledAmounts

(* C20 witness: a detailed credit-card statement whose only amount is
   spelled positive gives a negative amount. *)
C20_Witness ==
    /\ pc = "return"
    /\ ~parsed.raised
    /\ parsed.account_type = "credit_card"
    /\ ~SummaryTitles
    /\ SpelledAmounts = {15000}
    /\ Len(parsed.transactions) = 1
    /\ parsed.transactions[1].amount = -15000

(* a checking statement keeps the positive amount *)
C20_WitnessCheque ==
    /\ pc = "return"
    /\ ~parsed.raised
    /\ parsed.account_type = "cheques"
    /\ SpelledAmounts = {15000}
    /\ Len(parsed.transactions) = 1
    /\ parsed.transactions[1].amount = 15000

----------------------------------------------------------------------------
(* upload(), the whole request, and the two totals of income: src/app.py,
   src/services/reports.py, src/services/tax_calculator.py *)

transfer_patterns ==
    <<"IB TRANSFER TO", "IB TRANSFER FROM", "FUND TRANSFERS", "AUTOBANK TRANSFER">>

is_inter_account_transfer(desc) ==
    \E k \in 1..Len(transfer_patterns) : In(transfer_patterns[k], upper(desc))

(* Category.category_type of the row init_categories_in_db made for a name;
   a transaction without category has the default the caller gives *)
category_type(name, default) ==
    IF name = NoneName THEN default
    ELSE (CHOOSE c \in Range(CATEGORIES) : c.name = name).type

(* str.title(): a letter after a letter is lower case, any other letter
   upper case *)
RECURSIVE TitleFrom(_, _)
TitleFrom(s, i) ==
    IF i > Len(s) THEN ""
    ELSE (IF i > 1 /\ CharAt(s, i - 1) \in Letters THEN LowerChar(CharAt(s, i))
          ELSE UpperChar(CharAt(s, i))) \o TitleFrom(s, i + 1)

title(s) == TitleFrom(s, 1)

endswith(s, suffix) ==
    Len(s) >= Len(suffix) /\ SubSeq(s, Len(s) - Len(suffix) + 1, Len(s)) = suffix

SkippedNote == "Skipped: inter-account transfer"

(* Transaction(...) as upload() fills it, with the column defaults *)
UploadedTransaction(statement_id, trans_data) ==
    [statement_id |-> statement_id, date |-> trans_data.date,
     description |-> trans_data.description, amount |-> trans_data.amount,
     category |-> categorize_transaction(trans_data.description, << >>)[1],
     notes |-> IF is_inter_account_transfer(trans_data.description)
               THEN SkippedNote ELSE "",
     is_duplicate |-> FALSE, duplicate_of_id |-> None, is_deleted |-> FALSE]

(* The files a request can carry.  account_number is what the header
   patterns of the parser find in the file; parse() of the model does not
   read it. *)
PeriodLine == <<"From:", "01", "Mar", "25", "To:", "31", "Mar", "25">>

UploadedFiles ==
    {[filename |-> "march.pdf", account_number |-> "10012345678",
      pages |-> <<<<<<"Signature", "Account">>, PeriodLine,
                    <<"15", "Mar", "25", "IB", "TRANSFER", "FROM", "PRECISE", "DIGITAL",
                      "1,000.00">>>>>>],
     [filename |-> "invoices.pdf", account_number |-> "10012345678",
      pages |-> <<<<<<"Signature", "Account">>, PeriodLine,
                    <<"16", "Mar", "25", "PRECISE", "DIGITAL", "2,000.00">>>>>>],
     [filename |-> "unknown.pdf", account_number |-> "10012345678",
      pages |-> <<<<<<"Bank", "Statement">>, PeriodLine,
                    <<"15", "Mar", "25", "NETFLIX.COM", "-99.00">>>>>>],
     [filename |-> "noperiod.pdf", account_number |-> "7001234567",
      pages |-> <<<<<<"Signature", "Account">>,
                    <<"15", "Mar", "25", "NETFLIX.COM", "-99.00">>>>>>],
     [filename |-> "notes.txt", account_number |-> "10012345678",
      pages |-> <<<<<<"Signature", "Account">>, PeriodLine,
                    <<"15", "Mar", "25", "NETFLIX.COM", "-99.00">>>>>>]}

(* a request carries one file or two *)
Requests ==
    {<<f>> : f \in UploadedFiles} \cup {<<f, g>> : f \in UploadedFiles, g \in UploadedFiles}

(* parser.parse() of each file, and the rows upload() makes of its lines,
   computed once *)
ParsedFiles == [f \in UploadedFiles |-> parse(f.pages)]

RowsOf(upload_result) ==
    IF upload_result.raised THEN << >>
    ELSE [k \in 1..Len(upload_result.transactions) |->
             UploadedTransaction(0, upload_result.transactions[k])]

RowsOfFiles == [f \in UploadedFiles |-> RowsOf(ParsedFiles[f])]

(* except Exception: db.session.rollback(); flash(..., 'error') *)
RolledBack(st) == [st EXCEPT !.flashed = Append(@, "error")]

(* db.session.commit(), then auto_mark_duplicates(): A, S and T are the
   tables as committed.  fails tells that the database raises in that
   auto_mark_duplicates() (a query or its commit). *)
Committed(A, S, T, fails, st) ==
    IF fails
    THEN [accounts |-> A, statements |-> S, transactions |-> T,
          flashed |-> Append(st.flashed, "error")]
    ELSE [accounts |-> A, statements |-> S,
          transactions |-> auto_mark_duplicates(T, S).transactions,
          flashed |-> Append(st.flashed, "success")]

(* Statement(...) and the Transaction(...) of each line; statement_id is
   the id the statement gets *)
AddStatement(file, upload_result, rows, A, account_id, statement_id, fails, st) ==
    \* statements.start_date is NOT NULL: the flush raises
    IF upload_result.start_date = << >> THEN RolledBack(st)
    ELSE Committed(A,
                   Append(st.statements,
                          [account_id |-> account_id,
                           start_date |-> upload_result.start_date[1],
                           end_date |-> upload_result.end_date[1],
                           filename |-> file.filename]),
                   st.transactions \o
                       [k \in 1..Len(rows) |-> [rows[k] EXCEPT !.statement_id = statement_id]],
                   fails, st)

(* Account.query.filter_by(account_number=...).first(), or a new account *)
GetOrCreateAccount(file, upload_result, rows, found, fails, st) ==
    IF found = {}
    THEN AddStatement(file, upload_result, rows,
                      Append(st.accounts,
                             [name |-> title(upload_result.account_type) \o " Account",
                              account_type |-> upload_result.account_type,
                              account_number |-> file.account_number]),
                      Len(st.accounts) + 1, Len(st.statements) + 1, fails, st)
    ELSE AddStatement(file, upload_result, rows, st.accounts,
                      CHOOSE a \in found : \A b \in found : a <= b,
                      Len(st.statements) + 1, fails, st)

(* the try block, on what parser.parse() gave *)
ImportParsed(file, upload_result, rows, fails, st) ==
    IF upload_result.raised THEN RolledBack(st)
    ELSE GetOrCreateAccount(file, upload_result, rows,
                            {a \in 1..Len(st.accounts) :
                                st.accounts[a].account_number = file.account_number},
                            fails, st)

(* One pass of `for file in files`.  st carries the three tables as
   committed so far and the messages. *)
UploadFile(file, fails, st) ==
    IF ~endswith(file.filename, ".pdf") THEN [st EXCEPT !.flashed = Append(@, "")]
    ELSE ImportParsed(file, ParsedFiles[file], RowsOfFiles[file], fails, st)

RECURSIVE FileLoop(_, _, _, _)
FileLoop(request_files, k, failing, st) ==
    IF k > Len(request_files) THEN st
    ELSE FileLoop(request_files, k + 1, failing,
                  UploadFile(request_files[k], k = failing, st))

(* POST /upload.  failing is the position of the file in whose
   auto_mark_duplicates() the database raises, 0 for none.  files, flashed
   and totals describe the last_auth served last and are empty when that
   last_auth did not carry them. *)
UploadFiles(request_files, failing) ==
    \E done \in {FileLoop(request_files, 1, failing,
                          [accounts |-> accounts, statements |-> statements,
                           transactions |-> transactions, flashed |-> << >>])} :
        /\ Len(done.transactions) <= MaxTrans
        /\ accounts' = done.accounts
        /\ statements' = done.statements
        /\ transactions' = done.transactions
        /\ flashed' = done.flashed
        /\ files' = request_files
        /\ totals' = << >>
        /\ op' = "upload"
        /\ UNCHANGED <<dismissed, duplicate_pairs, marked, marked_count, duplicates_data,
                       rerun, transactions_list, duplicates, description, db_rules, result,
                       pdf, parsed, pc, calls>>

(* dates *)
DateLE(a, b) ==
    \/ a.year < b.year
    \/ a.year = b.year /\ a.month < b.month
    \/ a.year = b.year /\ a.month = b.month /\ a.day <= b.day

(* datetime.strptime(s, '%Y-%m-%d') *)
DashAt(s) == {i \in 1..Len(s) : CharAt(s, i) = "-"}

iso_parses(s) ==
    /\ Cardinality(DashAt(s)) = 2
    /\ LET d1 == CHOOSE i \in DashAt(s) : \A j \in DashAt(s) : i <= j
           d2 == CHOOSE i \in DashAt(s) : \A j \in DashAt(s) : i >= j
       IN  /\ d1 = 5 /\ IsDigits(SubSeq(s, 1, 4), 4, 4)
           /\ IsDigits(SubSeq(s, d1 + 1, d2 - 1), 1, 2)
           /\ IsDigits(SubSeq(s, d2 + 1, Len(s)), 1, 2)
           /\ ToInt(SubSeq(s, d1 + 1, d2 - 1)) \in 1..12
           /\ ToInt(SubSeq(s, d2 + 1, Len(s))) \in
                  1..DaysIn(ToInt(SubSeq(s, 1, 4)), ToInt(SubSeq(s, d1 + 1, d2 - 1)))

iso_date(s) ==
    LET d2 == CHOOSE i \in DashAt(s) : \A j \in DashAt(s) : i >= j
    IN  [year |-> ToInt(SubSeq(s, 1, 4)), month |-> ToInt(SubSeq(s, 6, d2 - 1)),
         day |-> ToInt(SubSeq(s, d2 + 1, Len(s)))]

(* get_tax_year_dates *)
get_tax_year_dates(tax_year) ==
    <<[year |-> tax_year - 1, month |-> 3, day |-> 1],
      [year |-> tax_year, month |-> 2, day |-> IF IsLeap(tax_year) THEN 29 ELSE 28]>>

(* Transaction.query.filter(is_deleted == False, is_duplicate == False,
   date >= start_date, date <= end_date).all() *)
RECURSIVE InRangeFrom(_, _, _, _)
InRangeFrom(T, i, start_date, end_date) ==
    IF i > Len(T) THEN << >>
    ELSE (IF IsActive(T[i]) /\ DateLE(start_date, T[i].date) /\ DateLE(T[i].date, end_date)
          THEN <<T[i]>> ELSE << >>) \o InRangeFrom(T, i + 1, start_date, end_date)

(* total_income of calculate_tax_from_transactions: abs(amount) of the
   transactions of category type income *)
RECURSIVE total_income(_, _)
total_income(trans, i) ==
    IF i > Len(trans) THEN 0
    ELSE (IF category_type(trans[i].category, "personal_expense") = "income"
          THEN (IF trans[i].amount < 0 THEN 0 - trans[i].amount ELSE trans[i].amount)
          ELSE 0) + total_income(trans, i + 1)

(* totals['income'] of aggregate_transactions: the amounts of the
   transactions of category type income *)
RECURSIVE report_income(_, _)
report_income(trans, i) ==
    IF i > Len(trans) THEN 0
    ELSE (IF category_type(trans[i].category, "excluded") = "income"
          THEN trans[i].amount ELSE 0) + report_income(trans, i + 1)

(* POST /api/calculate_tax; of the calculation the model keeps
   period_income *)
CalculateTax(start_date_str, end_date_str) ==
    /\ totals' =
           IF ~iso_parses(start_date_str) \/ ~iso_parses(end_date_str)
           THEN [success |-> FALSE, error |-> "Invalid date format"]
           ELSE [success |-> TRUE,
                 start_date |-> iso_date(start_date_str),
                 end_date |-> iso_date(end_date_str),
                 period_income |->
                     total_income(InRangeFrom(transactions, 1, iso_date(start_date_str),
                                              iso_date(end_date_str)), 1)]
    /\ op' = "calculate_tax"
    /\ files' = << >>
    /\ flashed' = << >>
    /\ UNCHANGED <<ledger, duplicate_pairs, marked, marked_count, duplicates_data, rerun,
                   transactions_list, duplicates, description, db_rules, result, pdf,
                   parsed, pc, calls>>

(* GET /reports; of the report the model keeps totals.income *)
Reports(selected_year) ==
    /\ totals' =
           [selected_year |-> selected_year,
            income |-> report_income(
                InRangeFrom(transactions, 1, get_tax_year_dates(selected_year)[1],
                            get_tax_year_dates(selected_year)[2]), 1)]
    /\ op' = "reports"
    /\ files' = << >>
    /\ flashed' = << >>
    /\ UNCHANGED <<ledger, duplicate_pairs, marked, marked_count, duplicates_data, rerun,
                   transactions_list, duplicates, description, db_rules, result, pdf,
                   parsed, pc, calls>>

(* the periods asked for: the first half of March, the second, and one
   with a date that does not exist *)
TaxPeriods ==
    {<<"2025-03-01", "2025-03-15">>, <<"2025-03-16", "2025-03-31">>,
     <<"2025-02-30", "2025-03-31">>}

TaxYears == {2025, 2026}

NextUpload ==
    \/ \E request_files \in Requests :
           \E failing \in 0..Len(request_files) : UploadFiles(request_files, failing)
    \/ \E period \in TaxPeriods : CalculateTax(period[1], period[2])
    \/ \E year \in TaxYears : Reports(year)

SpecUpload == Init /\ [][NextUpload]_vars

----------------------------------------------------------------------------
(* Properties of upload() and of the totals of income *)

(* the files of a request without those an error was flashed for *)
RECURSIVE WithoutFailed(_, _, _)
WithoutFailed(request_files, messages, k) ==
    IF k > Len(request_files) THEN << >>
    ELSE (IF messages[k] = "error" THEN << >> ELSE <<request_files[k]>>)
             \o WithoutFailed(request_files, messages, k + 1)

Tables(st) == <<st.accounts, st.statements, st.transactions>>

(* C18: an upload leaves the three tables as the same upload without its
   failed files, none of them failing, leaves them: a failed file leaves
   no row, and the other files are imported as if it had not been sent. *)
C18_FailedFileLeavesNothing ==
    [][op' = "upload" =>
          <<accounts', statements', transactions'>> =
              Tables(FileLoop(WithoutFailed(files', flashed', 1), 1, 0,
                              [accounts |-> accounts, statements |-> statements,
                               transactions |-> transactions, flashed |-> << >>]))]_vars

(* the rows an income total of the period may count: in the period, not
   deleted, not a duplicate, of an income category and not an
   inter-account transfer *)
IncomeRows(start_date, end_date) ==
    {i \in 1..Len(transactions) :
        /\ ~transactions[i].is_deleted /\ ~transactions[i].is_duplicate
        /\ DateLE(start_date, transactions[i].date)
        /\ DateLE(transactions[i].date, end_date)
        /\ transactions[i].category = "Income"
        /\ ~is_inter_account_transfer(transactions[i].description)}

RECURSIVE SumOfRows(_, _)
SumOfRows(ids, absolute) ==
    IF ids = {} THEN 0
    ELSE LET i == CHOOSE i \in ids : TRUE
         IN  (IF absolute THEN Abs(transactions[i].amount) ELSE transactions[i].amount)
                 + SumOfRows(ids \ {i}, absolute)

(* C19: period_income of a tax calculation and the income of a report are
   the totals of the income rows that are not inter-account transfers. *)
C19_TransfersNotIncome ==
    /\ (op = "calculate_tax" /\ totals.success) =>
           totals.period_income =
               SumOfRows(IncomeRows(totals.start_date, totals.end_date), TRUE)
    /\ op = "reports" =>
           totals.income =
               SumOfRows(IncomeRows([year |-> totals.selected_year - 1, month |-> 3, day |-> 1],
                                    [year |-> totals.selected_year, month |-> 3, day |-> 0]),
                         FALSE)

----------------------------------------------------------------------------
(* The year of a transaction line, in the two detailed formats *)

(* the lines of the inputs that carry a year of their own all carry 25; the
   one line without a year is the WOOLWORTHS line *)
HasOwnYear(transaction) == ~In("WOOLWORTHS", transaction.description)

DetailedFormat ==
    /\ pc = "return"
    /\ ~parsed.raised
    /\ parsed.account_type \in {"cheques", "credit_card"}
    /\ ~SummaryTitles

(* C21: in a detailed checking or credit-card statement a line with a year
   of its own is dated with that year, whatever year marker came before
   it. *)
C21_OwnYearKept ==
    DetailedFormat =>
        \A k \in 1..Len(parsed.transactions) :
            HasOwnYear(parsed.transactions[k]) => parsed.transactions[k].date.year = 2025

----------------------------------------------------------------------------
(* tax_calculator.calculate_tax_from_transactions.  Of the dictionary it
   returns the model keeps the sums over the transactions: period_income,
   period_expenses, period_profit, expense_breakdown,
   total_personal_expenses, total_excluded and the uncategorized count.
   An optional argument or dictionary entry is << >> when missing and <<x>>
   when given. *)

MaxTaxRows == 2        \* transactions handed to calculate_tax_from_transactions

HOME_OFFICE_CATEGORIES == {"Interest (Mortgage)", "Maintenance", "Municipal", "Insurance"}
DEFAULT_HOME_OFFICE_SQM == 22
DEFAULT_HOUSE_TOTAL_SQM == 268

(* (full_amount * (office_sqm / house_sqm)).quantize(Decimal('0.01')), in
   cents: the quotient rounded to the nearest cent, a tie to the even cent;
   a house of no size gives the percentage 0 *)
Apportioned(full_amount, office_sqm, house_sqm) ==
    IF house_sqm <= 0 THEN 0
    ELSE LET n == full_amount * office_sqm
             q == n \div house_sqm
             r == n % house_sqm
         IN  IF 2 * r < house_sqm THEN q
             ELSE IF 2 * r > house_sqm THEN q + 1
             ELSE IF q % 2 = 0 THEN q ELSE q + 1

(* breakdown[category] += amount, the entry starting at 0 *)
AddTo(breakdown, category, amount) ==
    [c \in DOMAIN breakdown \cup {category} |->
        IF c = category
        THEN (IF category \in DOMAIN breakdown THEN breakdown[category] ELSE 0) + amount
        ELSE breakdown[c]]

TypeOfDefaultBusiness(trans) ==
    IF trans.category_type = << >> THEN "business_expense" ELSE trans.category_type[1]

(* trans.get('category_type', 'personal_expense') *)
TypeOf(trans) == IF trans.category_type = << >> THEN "personal_expense"
                 ELSE trans.category_type[1]

(* one turn of the loop over the transactions *)
Summarize(sums, trans, office_sqm, house_sqm) ==
    LET amount == Abs(trans.amount) IN
    IF TypeOf(trans) = "income"
    THEN [sums EXCEPT !.total_income = @ + amount]
    ELSE IF TypeOf(trans) = "business_expense"
    THEN IF trans.category \in HOME_OFFICE_CATEGORIES
         THEN [sums EXCEPT
                  !.total_business_expenses = @ + Apportioned(amount, office_sqm, house_sqm),
                  !.expense_breakdown =
                      AddTo(@, trans.category, Apportioned(amount, office_sqm, house_sqm))]
         ELSE [sums EXCEPT !.total_business_expenses = @ + amount,
                           !.expense_breakdown = AddTo(@, trans.category, amount)]
    ELSE IF TypeOf(trans) = "personal_expense"
    THEN [sums EXCEPT !.total_personal_expenses = @ + amount]
    ELSE IF TypeOf(trans) = "excluded"
    THEN [sums EXCEPT !.total_excluded = @ + amount]
    ELSE [sums EXCEPT !.total_personal_expenses = @ + amount,
                      !.uncategorized_count = @ + 1]

RECURSIVE SummarizeFrom(_, _, _, _, _)
SummarizeFrom(sums, rows, k, office_sqm, house_sqm) ==
    IF k > Len(rows) THEN sums
    ELSE SummarizeFrom(Summarize(sums, rows[k], office_sqm, house_sqm), rows, k + 1,
                       office_sqm, house_sqm)

calculate_tax_from_transactions(rows, home_office_sqm, house_total_sqm) ==
    LET office_sqm == IF home_office_sqm = << >> THEN DEFAULT_HOME_OFFICE_SQM
                      ELSE home_office_sqm[1]
        house_sqm == IF house_total_sqm = << >> THEN DEFAULT_HOUSE_TOTAL_SQM
                     ELSE house_total_sqm[1]
        sums == SummarizeFrom([total_income |-> 0, total_business_expenses |-> 0,
                               total_personal_expenses |-> 0, total_excluded |-> 0,
                               expense_breakdown |-> << >>, uncategorized_count |-> 0],
                              rows, 1, office_sqm, house_sqm)
    IN  [period_income |-> sums.total_income,
         period_expenses |-> sums.total_business_expenses,
         period_profit |-> sums.total_income - sums.total_business_expenses,
         expense_breakdown |-> sums.expense_breakdown,
         total_personal_expenses |-> sums.total_personal_expenses,
         total_excluded |-> sums.total_excluded,
         uncategorized_count |-> sums.uncategorized_count]

(* the transactions handed in: typed income, business_expense (two of them
   in home-office categories), personal_expense, excluded, of a type the
   function does not know, and without category_type *)
TaxRows ==
    {[category |-> "Income", category_type |-> <<"income">>, amount |-> 1000000],
     [category |-> "Software", category_type |-> <<"business_expense">>, amount |-> -50000],
     [category |-> "Municipal", category_type |-> <<"business_expense">>,
      amount |-> -100001],
     [category |-> "Insurance", category_type |-> <<"business_expense">>, amount |-> 33500],
     [category |-> "Software", category_type |-> <<"personal_expense">>, amount |-> -700],
     [category |-> "Personal", category_type |-> << >>, amount |-> -1599],
     [category |-> "Transfer", category_type |-> <<"excluded">>, amount |-> -20000],
     [category |-> "Municipal", category_type |-> <<"transfer">>, amount |-> -5000]}

(* the sizes of office and house: the defaults, a house of no size, and a
   half where a cent can tie *)
HomeOffices == {<<<< >>, << >>>>, <<<<10>>, <<0>>>>, <<<<1>>, <<2>>>>}

InitTransactionsTax ==
    /\ accounts = << >>
    /\ statements = << >>
    /\ transactions = << >>
    /\ dismissed = << >>
    /\ op = "init"
    /\ duplicate_pairs = << >>
    /\ marked = << >>
    /\ marked_count = 0
    /\ duplicates_data = << >>
    /\ rerun = FALSE
    /\ transactions_list = << >>
    /\ duplicates = << >>
    /\ description = ""
    /\ db_rules = << >>
    /\ result = << >>
    /\ pdf = << >>
    /\ parsed = << >>
    /\ files = << >>
    /\ flashed = << >>
    /\ totals = << >>
    /\ pc = "call"
    /\ \E sizes \in HomeOffices :
           tax_input = [transactions |-> << >>, home_office_sqm |-> sizes[1],
                        house_total_sqm |-> sizes[2], edited |-> << >>]
    /\ tax_calc = << >>
    /\ previous_tax = << >>
    /\ session = << >>
    /\ last_auth = "none"

(* a call of calculate_tax_from_transactions with the list rows, which
   differs from the list of the call before in the transactions edited *)
TaxFromTransactions(rows, edited) ==
    /\ tax_input' = [tax_input EXCEPT !.transactions = rows, !.edited = edited]
    /\ tax_calc' = calculate_tax_from_transactions(rows, tax_input.home_office_sqm,
                                                   tax_input.house_total_sqm)
    /\ previous_tax' = IF pc = "call" THEN << >> ELSE <<tax_calc>>
    /\ pc' = "return"
    /\ UNCHANGED <<ledger, observed, transactions_list, duplicates, description, db_rules,
                   result, pdf, parsed, files, flashed, totals, session, last_auth>>

FirstTaxCall ==
    /\ pc = "call"
    /\ TaxFromTransactions(tax_input.transactions, << >>)

TaxWithAdded ==
    /\ pc = "return"
    /\ Len(tax_input.transactions) < MaxTaxRows
    /\ \E trans \in TaxRows :
           TaxFromTransactions(Append(tax_input.transactions, trans), <<trans>>)

TaxWithRemoved ==
    /\ pc = "return"
    /\ \E k \in 1..Len(tax_input.transactions) :
           TaxFromTransactions(
               SubSeq(tax_input.transactions, 1, k - 1)
                   \o SubSeq(tax_input.transactions, k + 1, Len(tax_input.transactions)),
               <<tax_input.transactions[k]>>)

TaxWithChanged ==
    /\ pc = "return"
    /\ \E k \in 1..Len(tax_input.transactions) :
           \E trans \in TaxRows \ {tax_input.transactions[k]} :
               TaxFromTransactions([tax_input.transactions EXCEPT ![k] = trans],
                                   <<tax_input.transactions[k], trans>>)

NextTransactionsTax ==
    \/ FirstTaxCall
    \/ TaxWithAdded
    \/ TaxWithRemoved
    \/ TaxWithChanged

SpecTransactionsTax == InitTransactionsTax /\ [][NextTransactionsTax]_vars

(* the deductible part of one transaction, and the sum over a list *)
Deductible(trans, sizes) ==
    IF trans.category_type # <<"business_expense">> THEN 0
    ELSE IF trans.category \in HOME_OFFICE_CATEGORIES
    THEN Apportioned(Abs(trans.amount),
                     IF sizes[1] = << >> THEN DEFAULT_HOME_OFFICE_SQM ELSE sizes[1][1],
                     IF sizes[2] = << >> THEN DEFAULT_HOUSE_TOTAL_SQM ELSE sizes[2][1])
    ELSE Abs(trans.amount)

RECURSIVE DeductibleSum(_, _, _)
DeductibleSum(rows, k, sizes) ==
    IF k > Len(rows) THEN 0
    ELSE Deductible(rows[k], sizes) + DeductibleSum(rows, k + 1, sizes)

NotDeductibleEdit ==
    /\ pc = "return"
    /\ previous_tax # << >>
    /\ tax_input.edited # << >>
    /\ \A k \in 1..Len(tax_input.edited) :
           tax_input.edited[k].category_type # <<"business_expense">>

(* C22: period_expenses is the sum of the absolute amounts of the
   business_expense transactions, those of the home-office categories
   scaled by office / house; a call that differs from the one before in a
   transaction of any other type returns the same period_expenses and
   expense_breakdown. *)
C22_OnlyBusinessDeductible ==
    /\ pc = "return" =>
           tax_calc.period_expenses =
               DeductibleSum(tax_input.transactions, 1,
                             <<tax_input.home_office_sqm, tax_input.house_total_sqm>>)
    /\ NotDeductibleEdit =>
           /\ tax_calc.period_expenses = previous_tax[1].period_expenses
           /\ tax_calc.expense_breakdown = previous_tax[1].expense_breakdown

C22_Witness ==
    /\ NotDeductibleEdit
    /\ tax_calc.period_expenses > 0
    /\ tax_calc.total_personal_expenses # previous_tax[1].total_personal_expenses
    /\ "Municipal" \in DOMAIN tax_calc.expense_breakdown

C22_WitnessUntyped ==
    /\ NotDeductibleEdit
    /\ tax_calc.period_expenses > 0
    /\ \E k \in 1..Len(tax_input.edited) : tax_input.edited[k].category_type = << >>

----------------------------------------------------------------------------
(* SATaxCalculator with the fallback tables.  An income is counted in rand,
   a tax in cents, a rate in percent: a rand of income at 18 percent is 18
   cents of tax.  Of the dictionary calculate_annual_tax returns the model
   keeps all but effective_rate. *)

MaxOffset == 1         \* rand below and above each bracket boundary
MaxMembers == 3        \* medical aid members

TaxBracketsLowBase ==
    <<[min |-> 0, max |-> <<237100>>, rate |-> 18, base |-> 0],
      [min |-> 237100, max |-> <<370500>>, rate |-> 26, base |-> 42678],
      [min |-> 370500, max |-> <<512800>>, rate |-> 31, base |-> 77362],
      [min |-> 512800, max |-> <<673000>>, rate |-> 36, base |-> 121475],
      [min |-> 673000, max |-> <<857900>>, rate |-> 39, base |-> 179147],
      [min |-> 857900, max |-> <<1817000>>, rate |-> 41, base |-> 251258],
      [min |-> 1817000, max |-> << >>, rate |-> 45, base |-> 644488]>>

(* the last bracket has max float('inf'), written << >> *)
TAX_BRACKETS_2025 ==
    <<[min |-> 0, max |-> <<237100>>, rate |-> 18, base |-> 0],
      [min |-> 237100, max |-> <<370500>>, rate |-> 26, base |-> 42678],
      [min |-> 370500, max |-> <<512800>>, rate |-> 31, base |-> 77362],
      [min |-> 512800, max |-> <<673000>>, rate |-> 36, base |-> 121475],
      [min |-> 673000, max |-> <<857900>>, rate |-> 39, base |-> 179147],
      [min |-> 857900, max |-> <<1817000>>, rate |-> 41, base |-> 251258],
      [min |-> 1817000, max |-> << >>, rate |-> 45, base |-> 644489]>>

PRIMARY_REBATE_2025 == 17235
SECONDARY_REBATE_2025 == 9444
TERTIARY_REBATE_2025 == 3145
MEDICAL_AID_CREDIT_MAIN == 364
MEDICAL_AID_CREDIT_DEPENDENT == 246
MEDICAL_AID_CREDIT_ADDITIONAL == 246

(* the first bracket from k on with income <= bracket['max']; the last
   bracket when the loop finds none *)
RECURSIVE BracketFrom(_, _)
BracketFrom(income, k) ==
    IF k >= Len(TAX_BRACKETS_2025) THEN TAX_BRACKETS_2025[Len(TAX_BRACKETS_2025)]
    ELSE IF income <= TAX_BRACKETS_2025[k].max[1] THEN TAX_BRACKETS_2025[k]
    ELSE BracketFrom(income, k + 1)

InBracket(income, bracket) == bracket.base * 100 + (income - bracket.min) * bracket.rate

_calculate_tax_on_income(income) ==
    IF income <= 0 THEN 0 ELSE InBracket(income, BracketFrom(income, 1))

_calculate_rebates(age) ==
    PRIMARY_REBATE_2025
        + (IF age >= 65 THEN SECONDARY_REBATE_2025 ELSE 0)
        + (IF age >= 75 THEN TERTIARY_REBATE_2025 ELSE 0)

_calculate_medical_credits(members) ==
    IF members = 0 THEN 0
    ELSE IF members = 1 THEN MEDICAL_AID_CREDIT_MAIN * 12
    ELSE (MEDICAL_AID_CREDIT_MAIN + MEDICAL_AID_CREDIT_DEPENDENT
              + MEDICAL_AID_CREDIT_ADDITIONAL * (members - 2)) * 12

Max0(x) == IF x > 0 THEN x ELSE 0

calculate_annual_tax(taxable_income, age, medical_aid_members) ==
    [taxable_income |-> taxable_income,
     tax_before_rebates |-> _calculate_tax_on_income(taxable_income),
     rebates |-> _calculate_rebates(age) * 100,
     medical_credits |-> _calculate_medical_credits(medical_aid_members) * 100,
     tax_liability |->
         Max0(_calculate_tax_on_income(taxable_income) - _calculate_rebates(age) * 100
                  - _calculate_medical_credits(medical_aid_members) * 100),
     age |-> age,
     medical_aid_members |-> medical_aid_members]

(* the incomes asked about: around every bracket boundary, around the two
   incomes where the rebates of a taxpayer under 65 and of one of 65 are
   used up, and two inside a bracket *)
IncomeMarks ==
    {TAX_BRACKETS_2025[k].min : k \in 1..Len(TAX_BRACKETS_2025)} \cup {95750, 148217}

Incomes ==
    {mark + d : mark \in IncomeMarks, d \in (0 - MaxOffset)..MaxOffset}
        \cup {100000, 2000000}

Ages == {40, 65, 75}

InitAnnualTax ==
    /\ accounts = << >>
    /\ statements = << >>
    /\ transactions = << >>
    /\ dismissed = << >>
    /\ op = "init"
    /\ duplicate_pairs = << >>
    /\ marked = << >>
    /\ marked_count = 0
    /\ duplicates_data = << >>
    /\ rerun = FALSE
    /\ transactions_list = << >>
    /\ duplicates = << >>
    /\ description = ""
    /\ db_rules = << >>
    /\ result = << >>
    /\ pdf = << >>
    /\ parsed = << >>
    /\ files = << >>
    /\ flashed = << >>
    /\ totals = << >>
    /\ pc = "call"
    /\ \E age \in Ages, members \in 0..MaxMembers :
           tax_input = [taxable_income |-> 0, age |-> age, medical_aid_members |-> members]
    /\ tax_calc = << >>
    /\ previous_tax = << >>
    /\ session = << >>
    /\ last_auth = "none"

(* a call of calculate_annual_tax for the same taxpayer *)
CalculateAnnualTax(taxable_income) ==
    /\ tax_input' = [tax_input EXCEPT !.taxable_income = taxable_income]
    /\ tax_calc' = calculate_annual_tax(taxable_income, tax_input.age,
                                        tax_input.medical_aid_members)
    /\ previous_tax' = IF pc = "call" THEN << >> ELSE <<tax_calc>>
    /\ pc' = "return"
    /\ UNCHANGED <<ledger, observed, transactions_list, duplicates, description, db_rules,
                   result, pdf, parsed, files, flashed, totals, session, last_auth>>

NextAnnualTax == \E taxable_income \in Incomes : CalculateAnnualTax(taxable_income)

SpecAnnualTax == InitAnnualTax /\ [][NextAnnualTax]_vars

TwoCalls == pc = "return" /\ previous_tax # << >>

(* C23: tax_liability is never negative; of two incomes of one taxpayer the
   larger has no smaller liability, and a larger one when its liability is
   positive; each bracket's base is the tax at the top of the bracket
   before it. *)
C23_LiabilityMonotone ==
    /\ pc = "return" => tax_calc.tax_liability >= 0
    /\ (TwoCalls /\ previous_tax[1].taxable_income <= tax_calc.taxable_income) =>
           previous_tax[1].tax_liability <= tax_calc.tax_liability
    /\ (TwoCalls /\ previous_tax[1].taxable_income < tax_calc.taxable_income
            /\ tax_calc.tax_liability > 0) =>
           previous_tax[1].tax_liability < tax_calc.tax_liability
    /\ \A k \in 2..Len(TAX_BRACKETS_2025) :
           TAX_BRACKETS_2025[k].base * 100 =
               InBracket(TAX_BRACKETS_2025[k - 1].max[1], TAX_BRACKETS_2025[k - 1])

C23_Witness ==
    /\ TwoCalls
    /\ previous_tax[1].taxable_income = 1817000
    /\ tax_calc.taxable_income = 1817001
    /\ tax_calc.tax_liability > previous_tax[1].tax_liability

C23_WitnessRebates ==
    /\ TwoCalls
    /\ previous_tax[1].taxable_income < tax_calc.taxable_income
    /\ previous_tax[1].taxable_income > 0
    /\ tax_calc.tax_before_rebates > previous_tax[1].tax_before_rebates
    /\ tax_calc.tax_liability = 0

----------------------------------------------------------------------------
(* login(), logout() and the decorator login_required, src/app.py.  One
   browser sends the requests; its session cookie holds the entry logged_in
   (<<TRUE>>) or does not (<< >>). *)

(* Config.AUTH_PASSWORD when the environment sets none *)
AUTH_PASSWORD == "changeme"

(* request.form.get('password'): the right one, two wrong ones, none *)
Passwords == {<<"changeme">>, <<"letmein">>, <<"">>, << >>}

LoggedInAlways(cookie) == TRUE

(* session.get('logged_in') *)
LoggedIn(cookie) == cookie = <<TRUE>>

(* return redirect(url_for('login')) *)
RedirectToLogin ==
    /\ op' = "login_required"
    /\ NoAutoMark
    /\ duplicates_data' = << >>
    /\ UNCHANGED <<ledger, harness>>

(* the decorated handler f *)
login_required(f) == IF LoggedIn(session) THEN f ELSE RedirectToLogin

(* POST /login *)
Login(password) ==
    /\ session' = IF password = <<AUTH_PASSWORD>> THEN <<TRUE>> ELSE session
    /\ last_auth' = IF password = <<"changeme">> THEN "login" ELSE last_auth
    /\ op' = IF password = <<AUTH_PASSWORD>> THEN "login" ELSE "login_invalid"
    /\ NoAutoMark
    /\ duplicates_data' = << >>
    /\ UNCHANGED <<ledger, pure>>

(* GET /login *)
LoginForm ==
    /\ op' = "login_form"
    /\ NoAutoMark
    /\ duplicates_data' = << >>
    /\ UNCHANGED <<ledger, harness>>

(* GET /logout: session.pop('logged_in', None) *)
Logout ==
    /\ session' = << >>
    /\ last_auth' = "logout"
    /\ op' = "logout"
    /\ NoAutoMark
    /\ duplicates_data' = << >>
    /\ UNCHANGED <<ledger, pure>>

NextSession ==
    \/ \E password \in Passwords : Login(password)
    \/ LoginForm
    \/ Logout
    \/ login_required(\E row \in ParsedRows : AddTransaction(row))
    \/ login_required(\E id \in 1..MaxTrans :
                          Cardinality(Deleted \cup {id}) <= MaxDeleted
                              /\ DeleteTransaction(id))
    \/ login_required(AutoMarkAll)
    \/ login_required(Duplicates)

SpecSession == Init /\ [][NextSession]_vars

(* what a request to /login or /logout leaves in op, and what a served
   request to a protected route does *)
AuthOps == {"login", "login_invalid", "login_form", "logout"}
ProtectedOps ==
    {"add_transaction", "delete_transaction", "auto_mark_all_duplicates", "duplicates"}

(* C24: a protected route is served only to a browser whose last successful
   login was followed by no logout; to any other browser the answer is the
   redirect to the login page, and the ledger stays as it is. *)
C24_ServedOnlyLoggedIn ==
    [][/\ op' \in ProtectedOps => last_auth = "login"
       /\ last_auth # "login" =>
              /\ op' \in AuthOps \cup {"login_required"}
              /\ UNCHANGED ledger]_vars

C24_Witness ==
    /\ op = "delete_transaction"
    /\ last_auth = "login"
    /\ \E id \in 1..Len(transactions) : transactions[id].is_deleted

C24_WitnessLoggedOut ==
    /\ op = "login_required"
    /\ last_auth = "logout"
    /\ Len(transactions) > 0

C24_WitnessNeverLoggedIn ==
    /\ op = "login_required"
    /\ last_auth = "none"

----------------------------------------------------------------------------
(* What a run of auto_mark_duplicates leaves behind *)

(* the transactions the last run assigned, each once *)
MarkedIds == {marked[k][2] : k \in 1..Len(marked)}

(* C25: after a run of auto_mark_duplicates every transaction the run
   marked refers, by duplicate_of_id, to another transaction that is
   active. *)
C25_MarkedPointsToActive ==
    op \in AutoMarkOps =>
        \A id \in MarkedIds :
            /\ transactions[id].duplicate_of_id \in 1..Len(transactions)
            /\ transactions[id].duplicate_of_id # id
            /\ IsActive(transactions[transactions[id].duplicate_of_id])

(* The ledger under uploads and runs of the duplicate pass only *)
NextImport ==
    \/ \E n \in AccountNumbers, rows \in ParsedStatements : Upload(n, rows)
    \/ AutoMarkAll

SpecImport == Init /\ [][NextImport]_vars

SameDateAndAmount(t, u) == t.date = u.date /\ t.amount = u.amount

(* C26: after any uploads and runs of the duplicate pass, every transaction
   marked duplicate has an active transaction of its date and amount. *)
C26_OneCopyStaysActive ==
    \A id \in 1..Len(transactions) :
        transactions[id].is_duplicate =>
            \E kept \in 1..Len(transactions) :
                /\ kept # id
                /\ IsActive(transactions[kept])
                /\ SameDateAndAmount(transactions[kept], transactions[id])

(* three copies, the third marked duplicate of the second, which is marked
   itself *)
C26_Witness ==
    /\ Len(transactions) = 3
    /\ IsActive(transactions[1])
    /\ transactions[2].is_duplicate
    /\ transactions[3].is_duplicate
    /\ transactions[3].duplicate_of_id = 2

----------------------------------------------------------------------------
(* A statement imported twice in a row *)

MaxImported == 4       \* rows in table transactions after an upload

(* three lines of one day and one amount; NETFLIX is part of the other two
   descriptions, which are not part of each other *)
ReimportRows ==
    {[date |-> "2025-03-15", description |-> "NETFLIX.COM", amount |-> -1599],
     [date |-> "2025-03-15", description |-> "NETFLIX", amount |-> -1599],
     [date |-> "2025-03-15", description |-> "WOOLWORTHS NETFLIX", amount |-> -1599]}

NextReimport ==
    \/ \E n \in AccountNumbers, row \in ReimportRows : UploadUpTo(n, <<row>>, MaxImported)
    \/ \E row \in ReimportRows : AddTransaction(row)

SpecReimport == Init /\ [][NextReimport]_vars

(* the lines of statement s *)
StatementRows(T, s) ==
    LET own == SelectSeq(T, LAMBDA t : t.statement_id = s)
    IN  [k \in 1..Len(own) |->
            [date |-> own[k].date, description |-> own[k].description,
             amount |-> own[k].amount]]

(* an upload of the statement the upload before it imported *)
SameStatementAgain ==
    /\ op = "upload"
    /\ op' = "upload"
    /\ Len(statements') = Len(statements) + 1
    /\ statements'[Len(statements')].account_id = statements[Len(statements)].account_id
    /\ StatementRows(transactions', Len(statements'))
           = StatementRows(transactions, Len(statements))

(* C27: the second of two imports in a row of one statement leaves every
   transaction there was as active or inactive as it was, and every
   transaction it adds marked duplicate. *)
C27_ReimportAddsNothing ==
    [][SameStatementAgain =>
           /\ \A id \in 1..Len(transactions) :
                  IsActive(transactions'[id]) = IsActive(transactions[id])
           /\ \A id \in (Len(transactions) + 1)..Len(transactions') :
                  transactions'[id].is_duplicate]_vars

----------------------------------------------------------------------------
(* C28: a run of auto_mark_duplicates marks a transaction duplicate only
   of a transaction of another statement. *)
C28_MarkedAcrossStatements ==
    op \in AutoMarkOps =>
        \A k \in 1..Len(marked) :
            transactions[marked[k][1]].statement_id
                # transactions[marked[k][2]].statement_id

----------------------------------------------------------------------------
(* The handlers that change a transaction: edit_transaction,
   split_transaction, mark_duplicate and bulk_delete, src/app.py.  op tells
   a split that was refused ("split_transaction_error", the flash of
   category error) from one that was made. *)

(* business_amount and personal_amount of the form, in cents: two parts of
   15.99, a part too many with a negative part, two parts that fall short,
   and a cent more than the whole with nothing *)
SplitAmounts == {<<1000, 599>>, <<2099, -500>>, <<1000, 500>>, <<1600, 0>>}

(* abs(total - abs(parent.amount)) > Decimal('0.01') *)
SplitRefused(parent, business_amount, personal_amount) ==
    Abs(business_amount + personal_amount - Abs(parent.amount)) > 1

(* Transaction(...) for one portion of parent *)
Portion(parent, id, amount, label) ==
    [NewTransaction(parent.statement_id,
                    [date |-> parent.date, description |-> parent.description \o label,
                     amount |-> 0 - amount])
        EXCEPT !.parent_transaction_id = id]

(* the rows after an accepted split *)
SplitRows(T, id, business_amount, personal_amount) ==
    [T EXCEPT ![id].is_deleted = TRUE]
        \o (IF business_amount > 0
            THEN <<Portion(T[id], id, business_amount, " (Business portion)")>>
            ELSE << >>)
        \o (IF personal_amount > 0
            THEN <<Portion(T[id], id, personal_amount, " (Personal portion)")>>
            ELSE << >>)

(* split_transaction(id), POST *)
SplitTransaction(id, business_amount, personal_amount) ==
    /\ id \in 1..Len(transactions)
    /\ Len(SplitRows(transactions, id, business_amount, personal_amount)) <= MaxTrans
    /\ IF SplitRefused(transactions[id], business_amount, personal_amount)
       THEN /\ op' = "split_transaction_error"
            /\ UNCHANGED transactions
       ELSE /\ op' = "split_transaction"
            /\ transactions' = SplitRows(transactions, id, business_amount, personal_amount)
    /\ NoAutoMark
    /\ duplicates_data' = << >>
    /\ UNCHANGED <<accounts, statements, dismissed, harness>>

EditedRestores(t, new_description, new_amount) ==
    [t EXCEPT !.description = new_description, !.amount = new_amount,
              !.is_deleted = FALSE]

(* the assignments of edit_transaction *)
Edited(t, new_description, new_amount) ==
    [t EXCEPT !.description = new_description, !.amount = new_amount]

(* edit_transaction(id), POST *)
EditTransaction(id, new_description, new_amount) ==
    /\ id \in 1..Len(transactions)
    /\ transactions' =
           [transactions EXCEPT ![id] = Edited(@, new_description, new_amount)]
    /\ op' = "edit_transaction"
    /\ NoAutoMark
    /\ duplicates_data' = << >>
    /\ UNCHANGED <<accounts, statements, dismissed, harness>>

(* mark_duplicate(): POST /api/mark_duplicate; duplicate_of_id is whatever
   the request carries *)
MarkDuplicate(transaction_id, duplicate_of_id) ==
    /\ transaction_id \in 1..Len(transactions)
    /\ transactions' = [transactions EXCEPT ![transaction_id].is_duplicate = TRUE,
                                            ![transaction_id].duplicate_of_id =
                                                duplicate_of_id]
    /\ op' = "mark_duplicate"
    /\ NoAutoMark
    /\ duplicates_data' = << >>
    /\ UNCHANGED <<accounts, statements, dismissed, harness>>

(* bulk_delete(): POST /api/bulk_delete *)
BulkDelete(transaction_ids) ==
    /\ transaction_ids # {}
    /\ transactions' =
           [id \in 1..Len(transactions) |->
               IF id \in transaction_ids
               THEN [transactions[id] EXCEPT !.is_deleted = TRUE]
               ELSE transactions[id]]
    /\ op' = "bulk_delete"
    /\ NoAutoMark
    /\ duplicates_data' = << >>
    /\ UNCHANGED <<accounts, statements, dismissed, harness>>

(* the line of the manual entries and of the uploads *)
EditRows == {row \in ParsedRows : row.date = "2025-03-15" /\ row.description = "NETFLIX.COM"}

(* The ledger under the split of manual entries *)
NextSplit ==
    \/ \E row \in EditRows : AddTransaction(row)
    \/ \E id \in 1..MaxTrans, amounts \in SplitAmounts :
           SplitTransaction(id, amounts[1], amounts[2])
    \/ \E id \in 1..MaxTrans : EditTransaction(id, "UBER", -1000)
    \/ \E id \in 1..MaxTrans :
           Cardinality(Deleted \cup {id}) <= MaxDeleted /\ DeleteTransaction(id)

SpecSplit == Init /\ [][NextSplit]_vars

(* The ledger under every handler that assigns is_deleted or is_duplicate,
   and edit_transaction.  mark_duplicate is posted by the review page, for
   a pair that page shows and in either order; upload() assigns the flags
   through the run of auto_mark_duplicates that auto_mark_all_duplicates
   makes as well. *)
NextEdit ==
    \/ \E row \in EditRows : AddTransaction(row)
    \/ \E id \in 1..MaxTrans :
           Cardinality(Deleted \cup {id}) <= MaxDeleted /\ DeleteTransaction(id)
    \/ \E ids \in SUBSET (1..MaxTrans) :
           Cardinality(Deleted \cup ids) <= MaxDeleted + 1 /\ BulkDelete(ids)
    \/ \E id \in 1..MaxTrans, amounts \in {<<1000, 599>>, <<1600, 0>>} :
           SplitTransaction(id, amounts[1], amounts[2])
    \/ \E id \in 1..MaxTrans : EditTransaction(id, "UBER", -1000)
    \/ \E pair \in Range(PairsById(transactions)) :
           \/ MarkDuplicate(pair[2], pair[1])
           \/ MarkDuplicate(pair[1], pair[2])
    \/ AutoMarkAll

SpecEdit == Init /\ [][NextEdit]_vars

RECURSIVE SumOfAbs(_, _)
SumOfAbs(T, ids) ==
    IF ids = {} THEN 0
    ELSE LET k == CHOOSE k \in ids : TRUE
         IN  Abs(T[k].amount) + SumOfAbs(T, ids \ {k})

(* C29: a refused split changes no row; an accepted one leaves the parent
   soft-deleted and portions whose absolute amounts sum to the parent's
   absolute amount within 0.01. *)
C29_SplitConservesAmount ==
    [][/\ op' = "split_transaction_error" => UNCHANGED ledger
       /\ op' = "split_transaction" =>
              \E id \in 1..Len(transactions) :
                  /\ transactions'[id].is_deleted
                  /\ \A k \in (Len(transactions) + 1)..Len(transactions') :
                         transactions'[k].parent_transaction_id = id
                  /\ Abs(SumOfAbs(transactions',
                                  (Len(transactions) + 1)..Len(transactions'))
                             - Abs(transactions[id].amount)) <= 1]_vars

(* C30: a transaction that is soft-deleted stays soft-deleted and one that
   is marked duplicate stays marked, whatever handler runs; no row leaves
   the table. *)
C30_FlagsMonotone ==
    [][/\ Len(transactions') >= Len(transactions)
       /\ \A id \in 1..Len(transactions) :
              /\ transactions[id].is_deleted => transactions'[id].is_deleted
              /\ transactions[id].is_duplicate => transactions'[id].is_duplicate]_vars

(* a soft-deleted transaction was edited *)
C30_Witness ==
    /\ op = "edit_transaction"
    /\ \E id \in 1..Len(transactions) :
           /\ transactions[id].is_deleted
           /\ transactions[id].description = "UBER"

(* a transaction marked by hand went through a run of the duplicate pass *)
C30_WitnessMarked ==
    /\ op = "auto_mark_all_duplicates"
    /\ \E id \in 1..Len(transactions) :
           /\ transactions[id].is_duplicate
           /\ transactions[id].duplicate_of_id > id

====
